---- MODULE Spec2Model ----
(***************************************************************************)
(* A model of the blogs-crawler extraction pipeline: the framework         *)
(* configuration store, the framework detector with its class-level        *)
(* domain cache, the HTML-to-Markdown converters, the Markdown persister   *)
(* and the crawl cache preloaded from the persisted documents.             *)
(*                                                                         *)
(* Text is modelled as a sequence of one-character strings, so that        *)
(* lower(), strip(), "in", startswith(), find() and slicing are computed   *)
(* and not assumed.  An optional value (Python None or a str) is a         *)
(* sequence of length 0 or 1.                                              *)
(***************************************************************************)
EXTENDS Naturals, Integers, Sequences, FiniteSets, TLC

VARIABLES
    config,         \* FrameworkConfigLoader._config["frameworks"]
    loader,         \* FrameworkConfigLoader._instance, its _config_path,
                    \* and the module's _config_loader
    domain_cache,   \* FrameworkDetector._domain_cache (class attribute)
    workers,        \* threads inside _detect_by_url: their position and locals
    cleared,        \* history: the entries removed by the last clear_cache
    converter,      \* the converter object constructed last
    constructions,  \* how many converters were constructed
    files,          \* the output directory: path -> text of the file
    url_cache,      \* CacheMiddleware.url_cache
    spider,         \* BaseBlogSpider: current_framework, _rules_initialized
    op,             \* the operation that ran last
    arg,            \* its argument
    ret             \* its return value

detectorVars == <<domain_cache, workers, cleared>>
converterVars == <<converter, constructions>>
storeVars == <<files, url_cache>>
vars == <<config, loader, detectorVars, converterVars, storeVars, spider, op, arg, ret>>

----------------------------------------------------------------------------
(* Python str and Optional[str]                                            *)

None == <<>>

Some(s) == <<s>>

\* Python truthiness of an Optional[str]: neither None nor ''.
Truthy(o) == o # None /\ o[1] # <<>>

UpperToLower ==
    [c \in {"D", "K", "M", "R", "S", "T", "W", "X", "Y"} |->
        CASE c = "D" -> "d" [] c = "K" -> "k" [] c = "M" -> "m"
          [] c = "R" -> "r" [] c = "S" -> "s" [] c = "T" -> "t"
          [] c = "W" -> "w" [] c = "X" -> "x" [] c = "Y" -> "y"]

\* str.lower()
Lower(s) ==
    [i \in 1..Len(s) |->
        IF s[i] \in DOMAIN UpperToLower THEN UpperToLower[s[i]] ELSE s[i]]

\* str.startswith(prefix)
StartsWith(s, prefix) ==
    Len(prefix) <= Len(s) /\ SubSeq(s, 1, Len(prefix)) = prefix

\* str.endswith(suffix)
EndsWith(s, suffix) ==
    Len(suffix) <= Len(s) /\ SubSeq(s, Len(s) - Len(suffix) + 1, Len(s)) = suffix

\* "sub in s"
Contains(sub, s) ==
    \E i \in 0..(Len(s) - Len(sub)) : SubSeq(s, i + 1, i + Len(sub)) = sub

\* s.find(sub, start), 0-based as in Python; -1 when absent
Find(s, sub, start) ==
    LET hits == {i \in start..(Len(s) - Len(sub)) :
                    SubSeq(s, i + 1, i + Len(sub)) = sub}
    IN  IF hits = {} THEN -1
        ELSE CHOOSE i \in hits : \A j \in hits : i <= j

----------------------------------------------------------------------------
(* The configuration store: crawler/framework_config.yaml as loaded by     *)
(* FrameworkConfigLoader.load_config.  A Python dict keeps insertion       *)
(* order, so the store is its key order plus the entry of every key.       *)

\* Pattern and page text used by the inputs below.
t_rtd == <<"r", "t", "d">>
t_mkd == <<"m", "k", "d">>
t_wy  == <<"w", "y", "-">>
t_md  == <<"m", "d", "-">>

\* The repository's framework_config.yaml (patterns abbreviated to three
\* characters): every framework the detector names, then "unknown".
DefaultConfig ==
    [keys |-> <<"readthedocs", "mkdocs", "sphinx", "docsify", "unknown">>,
     frameworks |->
        [f \in {"readthedocs", "mkdocs", "sphinx", "docsify", "unknown"} |->
            CASE f = "readthedocs" ->
                    [patterns |-> [url |-> <<t_rtd>>, html |-> <<t_wy>>],
                     selectors |-> [title |-> <<"h1", "title">>,
                                    content |-> <<"div.document", "body">>,
                                    tags |-> <<".tags a">>],
                     strip_tags |-> <<"script", "nav">>,
                     link_extractor |-> [allow |-> <<"/en/">>, deny |-> <<"/_static/">>]]
              [] f = "mkdocs" ->
                    [patterns |-> [url |-> <<t_mkd>>, html |-> <<t_md>>],
                     selectors |-> [title |-> <<"h1", "title">>,
                                    content |-> <<"article", "body">>,
                                    tags |-> <<".tags a">>],
                     strip_tags |-> <<"script", "nav">>,
                     link_extractor |-> [allow |-> <<>>, deny |-> <<"/assets/">>]]
              [] f = "sphinx" ->
                    [patterns |-> [url |-> <<>>, html |-> <<>>],
                     selectors |-> [title |-> <<"h1", "title">>,
                                    content |-> <<"div.body", "body">>,
                                    tags |-> <<>>],
                     strip_tags |-> <<"script", "nav">>,
                     link_extractor |-> [allow |-> <<>>, deny |-> <<"/_static/">>]]
              [] f = "docsify" ->
                    [patterns |-> [url |-> <<>>, html |-> <<>>],
                     selectors |-> [title |-> <<"h1", "title">>,
                                    content |-> <<"article", "body">>,
                                    tags |-> <<>>],
                     strip_tags |-> <<"script", "nav">>,
                     link_extractor |-> [allow |-> <<>>, deny |-> <<>>]]
              [] OTHER ->
                    [patterns |-> [url |-> <<>>, html |-> <<>>],
                     selectors |-> [title |-> <<"h1", "title">>,
                                    content |-> <<"body">>,
                                    tags |-> <<>>],
                     strip_tags |-> <<"script", "style">>,
                     link_extractor |-> [allow |-> <<>>, deny |-> <<>>]]]]

\* A configuration file given by config_path: two frameworks in another
\* order and the mandatory "unknown" entry, which leaves "patterns" out.
CustomConfig ==
    [keys |-> <<"mkdocs", "readthedocs", "unknown">>,
     frameworks |->
        [f \in {"mkdocs", "readthedocs", "unknown"} |->
            CASE f = "mkdocs" -> DefaultConfig.frameworks["mkdocs"]
              [] f = "readthedocs" -> DefaultConfig.frameworks["readthedocs"]
              [] OTHER ->
                    [selectors |-> [title |-> <<"h1">>, content |-> <<"body">>,
                                    tags |-> <<>>],
                     strip_tags |-> <<"script">>,
                     link_extractor |-> [allow |-> <<>>, deny |-> <<>>]]]]

ConfigFiles == {DefaultConfig, CustomConfig}

\* The paths of the configuration files: crawler/framework_config.yaml,
\* a file of the user, and a path at which there is no file.
p_default == "framework_config.yaml"

p_custom == "custom.yaml"

p_missing == "missing.yaml"

ConfigPaths == {p_default, p_custom, p_missing}

\* yaml.safe_load of the file at path
ConfigAt(path) == IF path = p_default THEN DefaultConfig ELSE CustomConfig

\* The class attributes before any construction: _instance = None,
\* _config = {}, _config_path = None, and the module's _config_loader = None.
NoConfig == [keys |-> <<>>, frameworks |-> [k \in {} |-> <<>>]]

NoLoader == [_instance |-> 0, instances |-> 0, _config_path |-> <<>>,
             _config_loader |-> 0]

\* The loader after get_config_loader() loaded the file of cfg.
LoaderOf(cfg) ==
    [_instance |-> 1, instances |-> 1,
     _config_path |-> <<IF cfg = DefaultConfig THEN p_default ELSE p_custom>>,
     _config_loader |-> 1]

\* FrameworkConfigLoader.__new__: an instance is made when _instance is None.
__new__(ld) ==
    IF ld._instance # 0 THEN ld
    ELSE [ld EXCEPT !._instance = ld.instances + 1, !.instances = ld.instances + 1]

\* self._config_path = config_path or self._get_default_config_path()
PathOr(config_path) == IF config_path = <<>> THEN p_default ELSE config_path[1]

\* FrameworkConfigLoader(config_path): __init__ sets the path and loads
\* when no path is set or one is given; load_config raises when there is no
\* file at the path.  The instance, the loader and the configuration
\* afterwards.
FrameworkConfigLoader(ld, cfg, config_path) ==
    IF ld._config_path # <<>> /\ config_path = <<>>
    THEN [ok |-> TRUE, instance |-> __new__(ld)._instance, loader |-> __new__(ld),
          config |-> cfg]
    ELSE [ok       |-> PathOr(config_path) # p_missing,
          instance |-> __new__(ld)._instance,
          loader   |-> [__new__(ld) EXCEPT !._config_path = <<PathOr(config_path)>>],
          config   |-> IF PathOr(config_path) = p_missing THEN cfg
                       ELSE ConfigAt(PathOr(config_path))]

\* _config_loader = FrameworkConfigLoader(config_path), unless that raised
Assigned(r) ==
    IF r.ok THEN [r EXCEPT !.loader._config_loader = r.instance] ELSE r

\* With a loader constructed at every call.
get_config_loader_always(ld, cfg, config_path) ==
    Assigned(FrameworkConfigLoader(ld, cfg, config_path))

\* get_config_loader(config_path): constructs the loader when the module's
\* _config_loader is None.
get_config_loader(ld, cfg, config_path) ==
    IF ld._config_loader = 0
    THEN Assigned(FrameworkConfigLoader(ld, cfg, config_path))
    ELSE [ok |-> TRUE, instance |-> ld._config_loader, loader |-> ld, config |-> cfg]

\* dict.get(key, default) on a record
Get(d, key, default) == IF key \in DOMAIN d THEN d[key] ELSE default

EmptyDict == [k \in {} |-> <<>>]

\* Without the fallback to the "unknown" entry.
get_framework_config_no_fallback(cfg, framework) ==
    Get(cfg.frameworks, framework, EmptyDict)

get_framework_config(cfg, framework) ==
    Get(cfg.frameworks, framework, Get(cfg.frameworks, "unknown", EmptyDict))

get_patterns(cfg, framework) ==
    Get(get_framework_config(cfg, framework), "patterns", EmptyDict)

get_selectors(cfg, framework) ==
    Get(get_framework_config(cfg, framework), "selectors", EmptyDict)

get_strip_tags(cfg, framework) ==
    Get(get_framework_config(cfg, framework), "strip_tags", <<>>)

get_link_extractor_config(cfg, framework) ==
    Get(get_framework_config(cfg, framework), "link_extractor", EmptyDict)

get_supported_frameworks(cfg) == cfg.keys

----------------------------------------------------------------------------
(* URLs and responses                                                      *)

\* Index of the first character of s that is in chars, Len(s) + 1 if none.
FirstOf(s, chars) ==
    LET hits == {i \in 1..Len(s) : s[i] \in chars}
    IN  IF hits = {} THEN Len(s) + 1
        ELSE CHOOSE i \in hits : \A j \in hits : i <= j

\* urllib.parse.urlparse(url): the netloc and the path of scheme://netloc/path?query#fragment
urlparse(url) ==
    LET i     == Find(url, <<":", "/", "/">>, 0)
        rest  == IF i = -1 THEN url ELSE SubSeq(url, i + 4, Len(url))
        e     == IF i = -1 THEN 1 ELSE FirstOf(rest, {"/", "?", "#"})
        tail  == SubSeq(rest, e, Len(rest))
    IN  [netloc |-> SubSeq(rest, 1, e - 1),
         path   |-> SubSeq(tail, 1, FirstOf(tail, {"?", "#"}) - 1)]

\* A query is <<selector, pseudo-element>>; response.css maps a query to
\* the list of its matches.  response.css(query).getall():
CssGetAll(response, query) ==
    IF query \in DOMAIN response.css THEN response.css[query] ELSE <<>>

\* response.css(query).get(): the first match, None when nothing matches
CssGet(response, query) ==
    IF CssGetAll(response, query) = <<>> THEN None
    ELSE Some(CssGetAll(response, query)[1])

q_generator == <<"meta[name=\"generator\"]", "::attr(content)">>
q_theme     == <<"meta[name=\"theme\"]", "::attr(content)">>

https == <<"h", "t", "t", "p", "s", ":", "/", "/">>

\* The pages given to the detector.  URLs: a host that matches a URL
\* pattern, a host that matches none with paths that match one framework,
\* the other, both or none, and the same host in upper case.
n_rtd == <<"r", "t", "d", ".", "i", "o">>
n_x   == <<"x", ".", "i", "o">>
n_X   == <<"X", ".", "i", "o">>
p_mkd == <<"/", "M", "K", "D">>
p_rtd == <<"/", "r", "t", "d">>

DetectUrls ==
    {https \o n_rtd \o <<"/">>, https \o n_rtd \o p_mkd,
     https \o n_x \o <<"/">>, https \o n_x \o p_mkd, https \o n_x \o p_rtd,
     https \o n_X \o <<"/">>}

b_wy == <<"<", "W", "Y", "-", ">">>
b_md == <<"<", "m", "d", "-", ">">>

g_mkdocs  == <<"M", "k", "D", "o", "c", "s">>
g_sphinx  == <<"S", "p", "h", "i", "n", "x">>
g_docsify == <<"d", "o", "c", "s", "i", "f", "y">>

\* The body, the generator meta tag and the theme meta tag of a page: no
\* evidence at all, evidence of one kind, and evidence of several kinds
\* for different frameworks.
DetectEvidence ==
    {<<<<>>, None, None>>,
     <<b_wy, None, None>>,
     <<b_md, Some(g_sphinx), Some(g_docsify)>>,
     <<<<>>, Some(g_mkdocs), None>>,
     <<<<>>, Some(g_sphinx), Some(g_docsify)>>,
     <<<<>>, None, Some(g_docsify)>>}

DetectPages ==
    {[url  |-> u,
      text |-> e[1],
      css  |-> [q \in {q_generator, q_theme} |->
                   IF q = q_generator THEN e[2] ELSE e[3]]] :
        u \in DetectUrls, e \in DetectEvidence}

----------------------------------------------------------------------------
(* FrameworkDetector                                                       *)

EmptyCache == [d \in {} |-> "unknown"]

\* domain_cache[domain] = framework
Store(cache, domain, framework) ==
    [d \in DOMAIN cache \cup {domain} |->
        IF d = domain THEN framework ELSE cache[d]]

\* The for loop over get_supported_frameworks() of _detect_by_url and of
\* _detect_by_html, from the i-th framework on: the first framework one of
\* whose patterns of the given kind is in one of the texts.
RECURSIVE FrameworkLoop(_, _, _, _)
FrameworkLoop(cfg, kind, texts, i) ==
    LET frameworks == get_supported_frameworks(cfg)
    IN  IF i > Len(frameworks) THEN "unknown"
        ELSE LET patterns == Get(get_patterns(cfg, frameworks[i]), kind, <<>>)
             IN  IF \E k \in 1..Len(patterns) :
                        \E text \in texts : Contains(patterns[k], text)
                 THEN frameworks[i]
                 ELSE FrameworkLoop(cfg, kind, texts, i + 1)

\* Without the cache lookup: the patterns are evaluated for every page.
_detect_by_url_no_lookup(cache, cfg, url) ==
    LET parsed == urlparse(url)
        domain == Lower(parsed.netloc)
        path   == Lower(parsed.path)
        framework == FrameworkLoop(cfg, "url", {domain, path}, 1)
    IN  IF framework # "unknown"
        THEN [ret |-> framework, cache |-> Store(cache, domain, framework)]
        ELSE [ret |-> "unknown", cache |-> cache]

\* The value returned and the cache left behind.
_detect_by_url(cache, cfg, url) ==
    LET parsed == urlparse(url)
        domain == Lower(parsed.netloc)
        path   == Lower(parsed.path)
        framework == FrameworkLoop(cfg, "url", {domain, path}, 1)
    IN  IF domain \in DOMAIN cache
        THEN [ret |-> cache[domain], cache |-> cache]
        ELSE IF framework # "unknown"
        THEN [ret |-> framework, cache |-> Store(cache, domain, framework)]
        ELSE [ret |-> "unknown", cache |-> cache]

_detect_by_html(cfg, response) ==
    LET html == Lower(response.text)
    IN  FrameworkLoop(cfg, "html", {html}, 1)

_detect_by_meta(response) ==
    LET generator == CssGet(response, q_generator)
        theme     == CssGet(response, q_theme)
    IN  IF Truthy(generator)
           /\ Contains(<<"m", "k", "d", "o", "c", "s">>, Lower(generator[1]))
        THEN "mkdocs"
        ELSE IF Truthy(generator)
           /\ Contains(<<"s", "p", "h", "i", "n", "x">>, Lower(generator[1]))
        THEN "sphinx"
        ELSE IF Truthy(theme)
           /\ Contains(<<"d", "o", "c", "s", "i", "f", "y">>, Lower(theme[1]))
        THEN "docsify"
        ELSE "unknown"

\* With the HTML strategy tried before the URL strategy.
_detect_html_first(cache, cfg, response) ==
    LET by_url == _detect_by_url(cache, cfg, response.url)
        html   == _detect_by_html(cfg, response)
        meta   == _detect_by_meta(response)
    IN  IF html # "unknown"
        THEN [ret |-> html, by |-> "html", cache |-> cache]
        ELSE IF by_url.ret # "unknown"
        THEN [ret |-> by_url.ret, by |-> "url", cache |-> by_url.cache]
        ELSE IF meta # "unknown"
        THEN [ret |-> meta, by |-> "meta", cache |-> by_url.cache]
        ELSE [ret |-> "unknown", by |-> "none", cache |-> by_url.cache]

\* With the result of the HTML strategy stored in the cache as well.
_detect_caches_html(cache, cfg, response) ==
    LET by_url == _detect_by_url(cache, cfg, response.url)
        html   == _detect_by_html(cfg, response)
        meta   == _detect_by_meta(response)
        domain == Lower(urlparse(response.url).netloc)
    IN  IF by_url.ret # "unknown"
        THEN [ret |-> by_url.ret, by |-> "url", cache |-> by_url.cache]
        ELSE IF html # "unknown"
        THEN [ret |-> html, by |-> "html", cache |-> Store(cache, domain, html)]
        ELSE IF meta # "unknown"
        THEN [ret |-> meta, by |-> "meta", cache |-> by_url.cache]
        ELSE [ret |-> "unknown", by |-> "none", cache |-> by_url.cache]

\* The framework returned, the strategy that decided it (the debug line
\* _detect logs) and the cache left behind.
_detect(cache, cfg, response) ==
    LET by_url == _detect_by_url(cache, cfg, response.url)
        html   == _detect_by_html(cfg, response)
        meta   == _detect_by_meta(response)
    IN  IF by_url.ret # "unknown"
        THEN [ret |-> by_url.ret, by |-> "url", cache |-> by_url.cache]
        ELSE IF html # "unknown"
        THEN [ret |-> html, by |-> "html", cache |-> by_url.cache]
        ELSE IF meta # "unknown"
        THEN [ret |-> meta, by |-> "meta", cache |-> by_url.cache]
        ELSE [ret |-> "unknown", by |-> "none", cache |-> by_url.cache]

\* Without the clear.
clear_cache_keeps(cache) == cache

\* FrameworkDetector.clear_cache: the class-level dict after .clear()
clear_cache(cache) == EmptyCache

----------------------------------------------------------------------------
(* The detector and the configuration loader, one call at a time           *)

\* BaseBlogSpider.__init__: the framework of the site is not known yet.
\* The spider after __init__: no framework, no rules, the counters of stats
\* at zero.  The field yielded is not in the code: it counts the items
\* parse_page has yielded.
NewSpider ==
    [current_framework |-> "unknown", _rules_initialized |-> FALSE,
     _rules |-> None,
     stats |-> [pages_crawled |-> 0, pages_succeeded |-> 0,
                pages_failed |-> 0,
                framework_distribution |-> [f \in {} |-> 0]],
     yielded |-> 0]

Threads == {1, 2}

Idle == [pc |-> "idle"]

Init ==
    /\ config \in ConfigFiles
    /\ loader = LoaderOf(config)
    /\ domain_cache = EmptyCache
    /\ workers = [t \in Threads |-> Idle]
    /\ op = "load_config"
    /\ arg = <<>>
    /\ ret = <<>>
    /\ cleared = EmptyCache
    /\ converter = [cls |-> "none"]
    /\ constructions = 0
    /\ files = <<>>
    /\ url_cache = <<>>
    /\ spider = NewSpider

\* FrameworkDetector.detect(response)
Detect(response) ==
    LET r == _detect(domain_cache, config, response)
    IN  /\ op' = "detect"
        /\ arg' = response
        /\ ret' = [name |-> r.ret, by |-> r.by]
        /\ domain_cache' = r.cache
        /\ UNCHANGED <<config, loader, workers, cleared, converterVars, storeVars, spider>>

\* FrameworkDetector.clear_cache()
ClearCache ==
    /\ op' = "clear_cache"
    /\ arg' = <<>>
    /\ ret' = <<>>
    /\ cleared' = domain_cache
    /\ domain_cache' = clear_cache(domain_cache)
    /\ UNCHANGED <<config, loader, workers, converterVars, storeVars, spider>>

Getters == {"get_framework_config", "get_patterns", "get_selectors",
            "get_strip_tags", "get_link_extractor_config"}

\* One of the loader's five getters called with a framework name.
Lookup(getter, framework) ==
    /\ op' = getter
    /\ arg' = framework
    /\ ret' = CASE getter = "get_framework_config" ->
                        get_framework_config(config, framework)
                [] getter = "get_patterns" -> get_patterns(config, framework)
                [] getter = "get_selectors" -> get_selectors(config, framework)
                [] getter = "get_strip_tags" -> get_strip_tags(config, framework)
                [] OTHER -> get_link_extractor_config(config, framework)
    /\ UNCHANGED <<config, loader, detectorVars, converterVars, storeVars, spider>>

Next ==
    \/ \E response \in DetectPages : Detect(response)
    \/ ClearCache

Spec == Init /\ [][Next]_vars

----------------------------------------------------------------------------
(* _detect_by_url called from several threads.  The method holds no lock:  *)
(* a thread can be suspended between the membership test on the cache      *)
(* (line 90) and the store that follows the pattern loop (line 105).       *)

\* Lines 85-95: parse the URL and test the cache; a hit returns at once.
CheckCache(t, url) ==
    LET domain == Lower(urlparse(url).netloc)
    IN  /\ workers[t].pc = "idle"
        /\ workers' =
            [workers EXCEPT ![t] =
                IF domain \in DOMAIN domain_cache
                THEN [pc |-> "returned", url |-> url, ret |-> domain_cache[domain]]
                ELSE [pc |-> "missed", url |-> url]]
        /\ UNCHANGED <<config, loader, domain_cache, cleared, converterVars, storeVars, op, arg, ret, spider>>

\* Lines 97-111 after a miss: the pattern loop, the store and the return.
ScanAndStore(t) ==
    LET url       == workers[t].url
        parsed    == urlparse(url)
        domain    == Lower(parsed.netloc)
        path      == Lower(parsed.path)
        framework == FrameworkLoop(config, "url", {domain, path}, 1)
    IN  /\ workers[t].pc = "missed"
        /\ workers' = [workers EXCEPT ![t] =
                        [pc |-> "returned", url |-> url, ret |-> framework]]
        /\ domain_cache' = IF framework # "unknown"
                           THEN Store(domain_cache, domain, framework)
                           ELSE domain_cache
        /\ UNCHANGED <<config, loader, cleared, converterVars, storeVars, op, arg, ret, spider>>

\* The caller takes the value; the thread is free for the next page.
TakeResult(t) ==
    /\ workers[t].pc = "returned"
    /\ workers' = [workers EXCEPT ![t] = Idle]
    /\ UNCHANGED <<config, loader, domain_cache, cleared, converterVars, storeVars, op, arg, ret, spider>>

NextThreads ==
    \/ \E t \in Threads, url \in DetectUrls : CheckCache(t, url)
    \/ \E t \in Threads : ScanAndStore(t)
    \/ \E t \in Threads : TakeResult(t)

SpecThreads == Init /\ [][NextThreads]_vars

----------------------------------------------------------------------------
(* What the claims speak of, stated without the detector's loops           *)

Range(seq) == {seq[i] : i \in DOMAIN seq}

\* The DomainCache key of a page.
DomainOf(response) == Lower(urlparse(response.url).netloc)

\* The patterns of one kind the store holds for a framework.
PatternSet(cfg, framework, kind) ==
    LET entry == cfg.frameworks[framework]
    IN  IF "patterns" \in DOMAIN entry /\ kind \in DOMAIN entry.patterns
        THEN Range(entry.patterns[kind])
        ELSE {}

UrlEvidence(cfg, framework, response) ==
    \E pattern \in PatternSet(cfg, framework, "url") :
        \/ Contains(pattern, DomainOf(response))
        \/ Contains(pattern, Lower(urlparse(response.url).path))

HtmlEvidence(cfg, framework, response) ==
    \E pattern \in PatternSet(cfg, framework, "html") :
        Contains(pattern, Lower(response.text))

\* The first framework, in store order, among those with evidence.
FirstInStoreOrder(cfg, evident) ==
    LET hits == {i \in 1..Len(cfg.keys) : cfg.keys[i] \in evident}
    IN  IF hits = {} THEN "unknown"
        ELSE cfg.keys[CHOOSE i \in hits : \A j \in hits : i <= j]

FirstByUrl(cfg, response) ==
    FirstInStoreOrder(cfg, {f \in Range(cfg.keys) : UrlEvidence(cfg, f, response)})

FirstByHtml(cfg, response) ==
    FirstInStoreOrder(cfg, {f \in Range(cfg.keys) : HtmlEvidence(cfg, f, response)})

MetaSays(response, query, word) ==
    /\ Truthy(CssGet(response, query))
    /\ Contains(word, Lower(CssGet(response, query)[1]))

----------------------------------------------------------------------------
(* Claims about the detector and the configuration loader                  *)

\* C1: every name detect returns is a key of the loaded configuration
\* store.
C1_ClassifierTotality ==
    op = "detect" => ret.name \in DOMAIN config.frameworks

\* C2: once a classification on a domain was decided by URL evidence, the
\* domain is cached with the framework returned, a later detect never
\* changes a cached entry, and every detect on a cached domain returns the
\* cached framework, whatever the path, body and meta tags of the page.
C2_CachePrecedence ==
    /\ [](op = "detect" /\ ret.by = "url" =>
            /\ DomainOf(arg) \in DOMAIN domain_cache
            /\ domain_cache[DomainOf(arg)] = ret.name)
    /\ [][op' = "detect" =>
            \A d \in DOMAIN domain_cache :
                /\ d \in DOMAIN domain_cache'
                /\ domain_cache'[d] = domain_cache[d]
                /\ DomainOf(arg') = d => ret'.name = domain_cache[d]]_vars

\* A cached framework was returned for a page whose URL matches no pattern
\* and whose body is evidence for another framework.
C2_Witness ==
    /\ op = "detect"
    /\ ret.by = "url"
    /\ FirstByUrl(config, arg) = "unknown"
    /\ FirstByHtml(config, arg) \notin {"unknown", ret.name}

\* C3: detect returns the cached framework of the page's domain; else the
\* first framework in store order with a matching URL pattern; else the
\* first framework in store order with a matching HTML pattern; else what
\* the generator meta tag says, else what the theme meta tag says; else
\* "unknown".
C3_StrictOrder ==
    [][op' = "detect" =>
        ret' =
            IF DomainOf(arg') \in DOMAIN domain_cache
            THEN [name |-> domain_cache[DomainOf(arg')], by |-> "url"]
            ELSE IF FirstByUrl(config, arg') # "unknown"
            THEN [name |-> FirstByUrl(config, arg'), by |-> "url"]
            ELSE IF FirstByHtml(config, arg') # "unknown"
            THEN [name |-> FirstByHtml(config, arg'), by |-> "html"]
            ELSE IF MetaSays(arg', q_generator, Lower(g_mkdocs))
            THEN [name |-> "mkdocs", by |-> "meta"]
            ELSE IF MetaSays(arg', q_generator, Lower(g_sphinx))
            THEN [name |-> "sphinx", by |-> "meta"]
            ELSE IF MetaSays(arg', q_theme, g_docsify)
            THEN [name |-> "docsify", by |-> "meta"]
            ELSE [name |-> "unknown", by |-> "none"]]_vars

\* URL evidence for two frameworks decided a page whose body and generator
\* tag are evidence for others: the first in store order was returned.
C3_Witness ==
    /\ op = "detect"
    /\ ret.by = "url"
    /\ \E f \in DOMAIN config.frameworks :
            f # ret.name /\ UrlEvidence(config, f, arg)
    /\ FirstByHtml(config, arg) \notin {"unknown", ret.name}
    /\ MetaSays(arg, q_generator, Lower(g_sphinx))

\* C4: a detect decided by the body, by a meta tag or by nothing leaves the
\* cache as it was, without the page's domain.
C4_ContentNotCached ==
    [][op' = "detect" /\ ret'.by # "url" =>
        /\ domain_cache' = domain_cache
        /\ DomainOf(arg') \notin DOMAIN domain_cache']_vars

\* A page was classified from its body and its domain is not cached.
C4_Witness ==
    /\ op = "detect"
    /\ ret.by = "html"
    /\ DomainOf(arg) \notin DOMAIN domain_cache

\* C5: clear_cache leaves the class-level cache empty, and the first detect
\* on a domain cleared from it is decided by the page's own URL evidence.
C5_ClearCache ==
    /\ [][op' = "clear_cache" => domain_cache' = EmptyCache]_vars
    /\ [][op' = "detect" /\ DomainOf(arg') \in DOMAIN cleared
            /\ DomainOf(arg') \notin DOMAIN domain_cache =>
                \/ ret'.by # "url" /\ FirstByUrl(config, arg') = "unknown"
                \/ ret'.by = "url" /\ ret'.name = FirstByUrl(config, arg')]_vars

\* After a clear, a page of a domain that was cached got another framework
\* than the one cached before the clear.
C5_Witness ==
    /\ op = "detect"
    /\ DomainOf(arg) \in DOMAIN cleared
    /\ ret.name # cleared[DomainOf(arg)]
    /\ ret.name # "unknown"

\* C7: each getter called with a name that is not in the store returns the
\* value the "unknown" entry holds under the getter's key.
C7_UnknownFallback ==
    op \in Getters /\ arg \notin DOMAIN config.frameworks =>
        LET unknown == config.frameworks["unknown"]
        IN  ret = CASE op = "get_framework_config" -> unknown
                    [] op = "get_patterns" -> Get(unknown, "patterns", EmptyDict)
                    [] op = "get_selectors" -> Get(unknown, "selectors", EmptyDict)
                    [] op = "get_strip_tags" -> Get(unknown, "strip_tags", <<>>)
                    [] OTHER -> Get(unknown, "link_extractor", EmptyDict)

\* get_strip_tags was called with a name that is not in the store and
\* returned a list that is not empty.
C7_Witness ==
    /\ op = "get_strip_tags"
    /\ arg \notin DOMAIN config.frameworks
    /\ ret # <<>>

----------------------------------------------------------------------------
(* Claim about concurrent classification                                   *)

\* C6: whenever two threads have returned from _detect_by_url with URL
\* evidence for pages of the same domain, they return the same framework
\* and the cache holds it for the domain.
C6_WritersAgree ==
    \A t1, t2 \in Threads :
        /\ workers[t1].pc = "returned" /\ workers[t1].ret # "unknown"
        /\ workers[t2].pc = "returned" /\ workers[t2].ret # "unknown"
        /\ Lower(urlparse(workers[t1].url).netloc)
                = Lower(urlparse(workers[t2].url).netloc)
        => /\ workers[t1].ret = workers[t2].ret
           /\ domain_cache[Lower(urlparse(workers[t1].url).netloc)]
                = workers[t1].ret

----------------------------------------------------------------------------
(* SelectorHelper, HtmlCleaner and the converters                          *)

\* The outcome of a call that can raise: a value, or an exception.
Ok(v) == [ok |-> TRUE, val |-> v]

Raise == [ok |-> FALSE]

Whitespace == {" ", "\n", "\t"}

\* str.strip()
Strip(s) ==
    LET keep == {i \in 1..Len(s) : s[i] \notin Whitespace}
    IN  IF keep = {} THEN <<>>
        ELSE SubSeq(s, CHOOSE i \in keep : \A j \in keep : i <= j,
                       CHOOSE i \in keep : \A j \in keep : i >= j)

\* str.split(",")
RECURSIVE Split(_)
Split(s) ==
    LET k == FirstOf(s, {","})
    IN  IF k > Len(s) THEN <<s>>
        ELSE <<SubSeq(s, 1, k - 1)>> \o Split(SubSeq(s, k + 1, Len(s)))

\* response.css(query) on a page where the queries in response.raises fail
CssTry(response, query) ==
    IF query \in response.raises THEN Raise ELSE Ok(CssGetAll(response, query))

\* SelectorHelper.extract_first_text, from the i-th selector on
RECURSIVE extract_first_text(_, _, _)
extract_first_text(response, selectors, i) ==
    IF i > Len(selectors) THEN Ok(None)
    ELSE LET r == CssTry(response, <<selectors[i], "::text">>)
         IN  IF ~r.ok THEN Raise
             ELSE IF r.val # <<>> /\ r.val[1] # <<>> /\ Strip(r.val[1]) # <<>>
             THEN Ok(Some(Strip(r.val[1])))
             ELSE extract_first_text(response, selectors, i + 1)

\* SelectorHelper.extract_first_html, from the i-th selector on
RECURSIVE extract_first_html(_, _, _)
extract_first_html(response, selectors, i) ==
    IF i > Len(selectors) THEN Ok(None)
    ELSE LET r == CssTry(response, <<selectors[i], "">>)
         IN  IF ~r.ok THEN Raise
             ELSE IF r.val # <<>> /\ r.val[1] # <<>>
             THEN Ok(Some(r.val[1]))
             ELSE extract_first_html(response, selectors, i + 1)

\* SelectorHelper.extract_all_texts: list(set(...)), as a set
extract_all_texts(response, selectors) ==
    LET results == [i \in 1..Len(selectors) |->
                        CssTry(response, <<selectors[i], "::text">>)]
    IN  IF \E i \in 1..Len(selectors) : ~results[i].ok THEN Raise
        ELSE Ok({Strip(t) : t \in {x \in UNION {Range(results[i].val) :
                                                   i \in 1..Len(selectors)} :
                                      x # <<>> /\ Strip(x) # <<>>}})

\* An HTML fragment is the sequence of its elements [tag, text, path] in
\* document order; path holds the names of the elements around it.
\* HtmlCleaner.strip_tags: soup.find_all(tag) finds the elements whose name
\* is tag; each is decomposed.
strip_tags_shallow(soup, tags) ==
    SelectSeq(soup, LAMBDA element : element.tag \notin Range(tags))

\* element.decompose() destroys the element and everything inside it.
strip_tags(soup, tags) ==
    SelectSeq(soup, LAMBDA element :
        /\ element.tag \notin Range(tags)
        /\ Range(element.path) \cap Range(tags) = {})

\* markdownify(str(soup), heading_style="ATX", bullets="*")
RECURSIVE md(_)
md(soup) ==
    IF soup = <<>> THEN <<>>
    ELSE (IF Head(soup).tag = "h1" THEN <<"#", " ">> ELSE <<>>)
            \o Head(soup).text \o <<"\n", "\n">> \o md(Tail(soup))

\* What each converter class adds to BaseConverter: the selectors its
\* extract_title tries first, the selector its extract_tags adds, the
\* selectors its extract_content tries first, whether it calls
\* convert(content_html, base_url=response.url), and what its __init__
\* appends to self.strip_tags.
Classes == {"BaseConverter", "ReadTheDocsConverter", "RBookConverter",
            "MkDocsConverter", "SphinxConverter", "TeadocsConverter",
            "DocsifyConverter"}

TitleSelectors(cls) ==
    CASE cls = "ReadTheDocsConverter" -> <<".wy-nav-content h1", ".document h1">>
      [] cls = "RBookConverter" -> <<".rbook-container h1">>
      [] cls = "MkDocsConverter" -> <<".md-content h1", "article h1">>
      [] cls = "SphinxConverter" -> <<".document h1", ".body h1">>
      [] cls = "TeadocsConverter" -> <<".teadocs-container h1">>
      [] cls = "DocsifyConverter" -> <<".content h1", "article h1">>
      [] OTHER -> <<>>

NavSelectors(cls) ==
    CASE cls = "ReadTheDocsConverter" -> <<".wy-breadcrumbs li a">>
      [] cls = "MkDocsConverter" -> <<".md-nav__link">>
      [] cls = "SphinxConverter" -> <<".sphinxsidebar a">>
      [] cls = "DocsifyConverter" -> <<".sidebar a">>
      [] OTHER -> <<>>

ContentSelectors(cls) ==
    CASE cls = "ReadTheDocsConverter" ->
            <<".wy-nav-content .document", ".wy-nav-content .rst-content",
              ".wy-nav-content section">>
      [] cls = "RBookConverter" ->
            <<".rbook-container .content", ".rbook-container article",
              ".rbook-container main">>
      [] cls = "MkDocsConverter" -> <<".md-content main", "article", "main">>
      [] cls = "SphinxConverter" -> <<".document .body", ".bodywrapper .body">>
      [] cls = "TeadocsConverter" ->
            <<".teadocs-container .content", ".teadocs-container article",
              ".teadocs-container main">>
      [] cls = "DocsifyConverter" -> <<".content", "article", "main">>
      [] OTHER -> <<>>

ConvertWithBaseUrl(cls) == cls \in {"ReadTheDocsConverter", "RBookConverter"}

ExtraStripTags(cls) ==
    CASE cls = "ReadTheDocsConverter" ->
            <<"div.ethical-ad", "div.ethical-dark-theme", "div.rtd-container",
              "div.wy-nav-top">>
      [] cls = "SphinxConverter" ->
            <<"div.sphinxsidebar", "div.sphinxsidebarwrapper", "div.related">>
      [] cls = "MkDocsConverter" ->
            <<"nav.md-nav", "div.md-sidebar", "header.md-header">>
      [] OTHER -> <<>>

\* BaseConverter._get_strip_tags: get_strip_tags hands out the list object
\* the store holds (of the framework's entry, else of "unknown"), or a new
\* empty list when the entry has no "strip_tags".
_get_strip_tags(cfg, framework) ==
    LET key == IF framework \in DOMAIN cfg.frameworks THEN framework
               ELSE "unknown"
    IN  IF key \in DOMAIN cfg.frameworks
           /\ "strip_tags" \in DOMAIN cfg.frameworks[key]
        THEN [kind |-> "config", key |-> key]
        ELSE [kind |-> "own", list |-> <<>>]

\* self.strip_tags as a list
StripTagsOf(conv, cfg) ==
    IF conv.strip_tags.kind = "config"
    THEN cfg.frameworks[conv.strip_tags.key].strip_tags
    ELSE conv.strip_tags.list

\* cls(framework) for BaseConverter, cls() for the others: whether the
\* constructor returned, the object, and the store afterwards.
\* self.strip_tags.extend(...) extends the list object in place.
construct(cfg, cls, framework) ==
    LET fw   == IF cls = "BaseConverter" THEN framework ELSE "unknown"
        ref  == _get_strip_tags(cfg, fw)
        self == [cls |-> cls, framework |-> fw, strip_tags |-> ref]
    IN  IF cls = "DocsifyConverter"
        THEN [ok |-> FALSE, error |-> "AttributeError", config |-> cfg]
        ELSE IF ExtraStripTags(cls) = <<>>
        THEN [ok |-> TRUE, converter |-> self, config |-> cfg]
        ELSE IF ref.kind = "config"
        THEN [ok |-> TRUE, converter |-> self,
              config |-> [cfg EXCEPT !.frameworks[ref.key].strip_tags =
                                        @ \o ExtraStripTags(cls)]]
        ELSE [ok |-> TRUE,
              converter |-> [self EXCEPT !.strip_tags.list = ExtraStripTags(cls)],
              config |-> cfg]

\* BaseConverter.convert(html)
convert(conv, cfg, html) == md(strip_tags(html, StripTagsOf(conv, cfg)))

q_og_title == <<"meta[property=\"og:title\"]", "::attr(content)">>
q_keywords == <<"meta[name=\"keywords\"]", "::attr(content)">>
q_og_tag   == <<"meta[property=\"og:article:tag\"]", "::attr(content)">>

\* The outcome of one extract_* method: ok is FALSE when the exception left
\* the method, exc says whether an exception was raised inside it.
Extracted(v) == [ok |-> TRUE, val |-> v, exc |-> FALSE]

Caught(v) == [ok |-> TRUE, val |-> v, exc |-> TRUE]

Propagated == [ok |-> FALSE, exc |-> TRUE]

\* BaseConverter.extract_title: the whole body is inside try/except.
Base_extract_title(conv, cfg, response) ==
    LET title_selectors ==
            Get(get_selectors(cfg, conv.framework), "title", <<"h1", "title">>)
        title == extract_first_text(response, title_selectors, 1)
        og    == CssTry(response, q_og_title)
    IN  IF ~title.ok THEN Caught(None)
        ELSE IF Truthy(title.val) THEN Extracted(title.val)
        ELSE IF ~og.ok THEN Caught(None)
        ELSE IF og.val # <<>> /\ og.val[1] # <<>>
        THEN Extracted(Some(Strip(og.val[1])))
        ELSE Extracted(None)

\* BaseConverter.extract_tags
Base_extract_tags(conv, cfg, response) ==
    LET tags_selectors == Get(get_selectors(cfg, conv.framework), "tags", <<>>)
        tags     == extract_all_texts(response, tags_selectors)
        keywords == CssTry(response, q_keywords)
        elements == CssTry(response, q_og_tag)
    IN  IF ~tags.ok \/ ~keywords.ok \/ ~elements.ok THEN Caught({})
        ELSE Extracted(
            (tags.val
                \cup (IF keywords.val # <<>> /\ keywords.val[1] # <<>>
                      THEN {Strip(k) : k \in Range(Split(keywords.val[1]))}
                      ELSE {})
                \cup {Strip(t) : t \in Range(elements.val)}) \ {<<>>})

\* BaseConverter.extract_content
Base_extract_content(conv, cfg, response) ==
    LET content_selectors ==
            Get(get_selectors(cfg, conv.framework), "content", <<"body">>)
        content_html == extract_first_html(response, content_selectors, 1)
    IN  IF ~content_html.ok THEN Caught(<<>>)
        ELSE IF Truthy(content_html.val)
        THEN Extracted(convert(conv, cfg, content_html.val[1]))
        ELSE Extracted(<<>>)

\* The loop a subclass runs before it falls back to BaseConverter:
\* "x = response.css(selector).get(); if x: ..." for each selector in turn,
\* outside any try.  The first match that is not empty, None if none.
RECURSIVE first_match(_, _, _, _)
first_match(response, selectors, pseudo, i) ==
    IF i > Len(selectors) THEN Ok(None)
    ELSE LET r == CssTry(response, <<selectors[i], pseudo>>)
         IN  IF ~r.ok THEN Raise
             ELSE IF r.val # <<>> /\ r.val[1] # <<>> THEN Ok(Some(r.val[1]))
             ELSE first_match(response, selectors, pseudo, i + 1)

\* extract_title of the converter's class
extract_title(conv, cfg, response) ==
    LET title == first_match(response, TitleSelectors(conv.cls), "::text", 1)
    IN  IF ~title.ok THEN Propagated
        ELSE IF title.val # None THEN Extracted(Some(Strip(title.val[1])))
        ELSE Base_extract_title(conv, cfg, response)

\* extract_tags of the converter's class
extract_tags(conv, cfg, response) ==
    LET tags == Base_extract_tags(conv, cfg, response)
        nav  == extract_all_texts(response, NavSelectors(conv.cls))
    IN  IF NavSelectors(conv.cls) = <<>> THEN tags
        ELSE IF ~nav.ok THEN Propagated
        ELSE [tags EXCEPT !.val = @ \cup nav.val]

\* extract_content of the converter's class.  BaseConverter.convert takes
\* no base_url: the call with that keyword raises TypeError.
extract_content(conv, cfg, response) ==
    LET content_html == first_match(response, ContentSelectors(conv.cls), "", 1)
    IN  IF ~content_html.ok THEN Propagated
        ELSE IF content_html.val # None
        THEN IF ConvertWithBaseUrl(conv.cls) THEN Propagated
             ELSE Extracted(convert(conv, cfg, content_html.val[1]))
        ELSE Base_extract_content(conv, cfg, response)

\* What process returns when it catches an exception.
ProcessFailed(failed) ==
    [title |-> None, tags |-> {}, content |-> <<>>, failed |-> failed,
     aborted |-> TRUE]

\* BaseConverter.process: the dict returned, the fields in whose
\* extraction an exception was raised (the errors logged), and whether the
\* except branch of process itself ran.
process(conv, cfg, response) ==
    LET title   == extract_title(conv, cfg, response)
        tags    == extract_tags(conv, cfg, response)
        content == extract_content(conv, cfg, response)
        Failed(fields) ==
            {f \in fields : \/ f = "title" /\ title.exc
                            \/ f = "tags" /\ tags.exc
                            \/ f = "content" /\ content.exc}
    IN  IF ~title.ok THEN ProcessFailed(Failed({"title"}))
        ELSE IF ~tags.ok THEN ProcessFailed(Failed({"title", "tags"}))
        ELSE IF ~content.ok THEN ProcessFailed(Failed({"title", "tags", "content"}))
        ELSE [title |-> title.val, tags |-> tags.val, content |-> content.val,
              failed |-> Failed({"title", "tags", "content"}),
              aborted |-> FALSE]

----------------------------------------------------------------------------
(* Converters are constructed and pages are processed                      *)

\* How many converters are constructed.
MaxConstructions == 2

NoConverter == [cls |-> "none"]

t_title    == <<" ", "T">>
t_keywords == <<"a", ",", " ", "b">>
t_crumb    == <<"d">>

fragment == <<[tag |-> "h1", text |-> <<"T">>, path |-> <<>>],
              [tag |-> "script", text |-> <<"x">>, path |-> <<>>],
              [tag |-> "p", text |-> <<"c">>, path |-> <<>>]>>

\* A page on which only the selectors of the store match.
PlainCss ==
    [q \in {<<"h1", "::text">>, q_keywords, <<"body", "">>} |->
        CASE q = <<"h1", "::text">> -> <<t_title>>
          [] q = q_keywords -> <<t_keywords>>
          [] OTHER -> <<fragment>>]

\* A Read the Docs page: the selectors of ReadTheDocsConverter match too.
RtdCss ==
    [q \in {<<"h1", "::text">>, q_keywords, <<"body", "">>,
            <<".wy-nav-content h1", "::text">>,
            <<".wy-breadcrumbs li a", "::text">>,
            <<".wy-nav-content .document", "">>} |->
        CASE q = <<"h1", "::text">> -> <<t_title>>
          [] q = <<".wy-nav-content h1", "::text">> -> <<t_title>>
          [] q = q_keywords -> <<t_keywords>>
          [] q = <<".wy-breadcrumbs li a", "::text">> -> <<t_crumb>>
          [] OTHER -> <<fragment>>]

\* The queries that can fail on a malformed page, none or one per page.
FaultyQueries ==
    {<<"h1", "::text">>, q_keywords, <<"body", "">>,
     <<".wy-nav-content h1", "::text">>, <<".wy-breadcrumbs li a", "::text">>,
     <<".wy-nav-content .document", "">>, <<".document h1", "::text">>,
     <<".md-nav__link", "::text">>}

u_page == https \o n_x \o <<"/", "a">>

t_blank    == <<" ", "\n">>
t_title2   == <<"T", "2">>
t_og_title == <<" ", "O", " ">>

\* Pages for the title: the heading holds only white space and a title
\* element and og:title follow; og:title alone; no title anywhere; and a
\* Read the Docs page whose heading in the content area starts with white
\* space before an inner element.
BlankHeadingCss ==
    [q \in {<<"h1", "::text">>, <<"title", "::text">>, q_og_title, <<"body", "">>} |->
        CASE q = <<"h1", "::text">> -> <<t_blank>>
          [] q = <<"title", "::text">> -> <<t_title2>>
          [] q = q_og_title -> <<t_og_title>>
          [] OTHER -> <<fragment>>]

OgTitleCss ==
    [q \in {q_og_title, <<"body", "">>} |->
        IF q = q_og_title THEN <<t_og_title>> ELSE <<fragment>>]

NoTitleCss == [q \in {<<"body", "">>} |-> <<fragment>>]

BlankRtdCss ==
    [q \in {<<"h1", "::text">>, <<".wy-nav-content h1", "::text">>, <<"body", "">>} |->
        CASE q = <<"h1", "::text">> -> <<t_title>>
          [] q = <<".wy-nav-content h1", "::text">> -> <<t_blank>>
          [] OTHER -> <<fragment>>]

TitleCss == {BlankHeadingCss, OgTitleCss, NoTitleCss, BlankRtdCss}

article == <<[tag |-> "p", text |-> <<"c">>, path |-> <<"article">>]>>

\* Pages for the content: a page on which no content selector matches,
\* and a page whose body holds an article element.
HeadOnlyCss ==
    [q \in {<<"h1", "::text">>, q_keywords} |->
        IF q = q_keywords THEN <<t_keywords>> ELSE <<t_title>>]

ArticleCss ==
    [q \in {<<"h1", "::text">>, <<"article", "">>, <<"body", "">>} |->
        CASE q = <<"h1", "::text">> -> <<t_title>>
          [] q = <<"article", "">> -> <<article>>
          [] OTHER -> <<fragment>>]

ContentCss == {HeadOnlyCss, ArticleCss}

t_keywords3 == <<"a", ",", " ", "b", ",", " ", "a">>
t_og_tag    == <<" ", "b">>
t_nav       == <<"n">>
t_label     == <<"t", " ">>

\* A page for the tags: a keyword given twice, an og:article:tag that is
\* one of the keywords, an empty one, and a navigation link.
TagsCss ==
    [q \in {<<"h1", "::text">>, q_keywords, q_og_tag,
            <<".tags a", "::text">>, <<".md-nav__link", "::text">>,
            <<"body", "">>} |->
        CASE q = <<"h1", "::text">> -> <<t_title>>
          [] q = q_keywords -> <<t_keywords3>>
          [] q = <<".tags a", "::text">> -> <<t_og_tag, t_label>>
          [] q = q_og_tag -> <<t_og_tag, <<>>>>
          [] q = <<".md-nav__link", "::text">> -> <<t_nav>>
          [] OTHER -> <<fragment>>]

\* <nav class="md-nav">m<a>l</a></nav><div>d<script>x</script><b>e</b></div>
nested == <<[tag |-> "nav", text |-> <<"m">>, path |-> <<>>],
            [tag |-> "a", text |-> <<"l">>, path |-> <<"nav">>],
            [tag |-> "div", text |-> <<"d">>, path |-> <<>>],
            [tag |-> "script", text |-> <<"x">>, path |-> <<"div">>],
            [tag |-> "b", text |-> <<"e">>, path |-> <<"div">>]>>

\* A page with elements inside elements.
NestedCss ==
    [q \in {<<"h1", "::text">>, <<"body", "">>} |->
        IF q = <<"body", "">> THEN <<nested>> ELSE <<t_title>>]

ConvertPages ==
    {[url |-> u_page, css |-> c, raises |-> r] :
        c \in {PlainCss, RtdCss},
        r \in {{}} \cup {{q} : q \in FaultyQueries}}
    \cup {[url |-> u_page, css |-> c, raises |-> {}] :
                c \in TitleCss \cup ContentCss \cup {TagsCss, NestedCss}}

\* cls(framework) for BaseConverter, cls() for a subclass
Construct(cls, framework) ==
    LET r == construct(config, cls, framework)
    IN  /\ constructions < MaxConstructions
        /\ constructions' = constructions + 1
        /\ op' = "construct"
        /\ arg' = <<cls, framework>>
        /\ ret' = IF r.ok THEN "ok" ELSE r.error
        /\ converter' = IF r.ok THEN r.converter ELSE converter
        /\ config' = r.config
        /\ UNCHANGED <<loader, detectorVars, storeVars, spider>>

\* converter.process(response)
Process(response) ==
    /\ converter # NoConverter
    /\ op' = "process"
    /\ arg' = response
    /\ ret' = process(converter, config, response)
    /\ UNCHANGED <<config, loader, detectorVars, converterVars, storeVars, spider>>

NextConvert ==
    \/ \E framework \in {"readthedocs", "nonexistent"} :
            Construct("BaseConverter", framework)
    \/ \E cls \in Classes \ {"BaseConverter"} : Construct(cls, "unknown")
    \/ \E response \in ConvertPages : Process(response)
    \/ \E getter \in Getters, framework \in {"readthedocs", "unknown", "nonexistent"} :
            Lookup(getter, framework)

SpecConvert == Init /\ [][NextConvert]_vars

----------------------------------------------------------------------------
(* Claims about the store and the converters                               *)

\* C8: the store is read-only after load: whatever converters were
\* constructed and whatever pages were processed, every entry of the store
\* equals its value right after load.
C8_ReadOnly == config \in ConfigFiles

Fields == {"title", "tags", "content"}

EmptyField(f) ==
    CASE f = "title" -> None
      [] f = "tags" -> {}
      [] OTHER -> <<>>

\* What the extraction of field f alone yields on the page.
FieldAlone(conv, cfg, response, f) ==
    CASE f = "title" -> extract_title(conv, cfg, response)
      [] f = "tags" -> extract_tags(conv, cfg, response)
      [] OTHER -> extract_content(conv, cfg, response)

\* C9: when an exception was raised while a field was extracted, process
\* returns the empty value for that field and, for each field extracted
\* without an exception, the value its extraction yields.
C9_FieldIsolation ==
    op = "process" /\ ret.failed # {} =>
        \A f \in Fields :
            ret[f] = IF f \in ret.failed THEN EmptyField(f)
                     ELSE FieldAlone(converter, config, arg, f).val

----------------------------------------------------------------------------
(* The persister writes documents and the crawl cache preloads them        *)

\* A YAML node: a scalar of the kind its tag says, or a block sequence.
Scalar(kind, s) == [kind |-> kind, val |-> s, items |-> <<>>]

StrNode(s) == Scalar("str", s)

SeqNode(items) == [kind |-> "seq", val |-> <<>>, items |-> items]

k_crawl_time == <<"c", "r", "a", "w", "l", "_", "t", "i", "m", "e">>
k_framework  == <<"f", "r", "a", "m", "e", "w", "o", "r", "k">>
k_tags       == <<"t", "a", "g", "s">>
k_title      == <<"t", "i", "t", "l", "e">>
k_url        == <<"u", "r", "l">>

Digits == {"0", "1", "2", "3", "4", "5", "6", "7", "8", "9"}

\* A string of the form strftime("%Y-%m-%d %H:%M:%S") writes.
IsTimestamp(s) ==
    /\ Len(s) = 19
    /\ \A i \in 1..19 :
          s[i] \in CASE i \in {5, 8} -> {"-"}
                     [] i = 11 -> {" "}
                     [] i \in {14, 17} -> {":"}
                     [] OTHER -> Digits

\* The tag YAML's implicit resolver gives a plain scalar.
Resolve(s) ==
    IF s \in {<<>>, <<"~">>, <<"n", "u", "l", "l">>} THEN "null"
    ELSE IF \A i \in 1..Len(s) : s[i] \in Digits THEN "int"
    ELSE IF IsTimestamp(s) THEN "timestamp"
    ELSE "str"

\* Whether the emitter writes the string s as a plain scalar: it has no
\* indicator where a plain scalar may not have one and it reads back as a
\* string.
PlainAllowed(s) ==
    /\ s # <<>>
    /\ s[1] \notin Whitespace /\ s[Len(s)] \notin Whitespace
    /\ "\n" \notin Range(s)
    /\ s[1] \notin {"#", "'", "\"", "[", "]", "{", "}", ",", "&", "*", "!",
                    "|", ">", "%", "@"}
    /\ ~(s[1] \in {"-", "?", ":"} /\ (Len(s) = 1 \/ s[2] \in Whitespace))
    /\ ~StartsWith(s, <<"-", "-", "-">>) /\ ~StartsWith(s, <<".", ".", ".">>)
    /\ ~Contains(<<":", " ">>, s) /\ s[Len(s)] # ":"
    /\ ~Contains(<<" ", "#">>, s)
    /\ Resolve(s) = "str"

\* A single-quoted scalar writes each quote twice.
RECURSIVE DoubleQuotes(_)
DoubleQuotes(s) ==
    IF s = <<>> THEN <<>>
    ELSE (IF Head(s) = "'" THEN <<"'", "'">> ELSE <<Head(s)>>)
            \o DoubleQuotes(Tail(s))

\* A string scalar without a line break as yaml.dump writes it.
emit_scalar(node) ==
    IF PlainAllowed(node.val) THEN node.val
    ELSE <<"'">> \o DoubleQuotes(node.val) \o <<"'">>

RECURSIVE emit_items(_)
emit_items(items) ==
    IF items = <<>> THEN <<>>
    ELSE <<"-", " ">> \o emit_scalar(Head(items)) \o <<"\n">>
            \o emit_items(Tail(items))

RECURSIVE emit_mapping(_, _)
emit_mapping(metadata, keys) ==
    IF keys = <<>> THEN <<>>
    ELSE LET k == Head(keys)
         IN  (IF k \notin DOMAIN metadata THEN <<>>
              ELSE IF metadata[k].kind = "seq"
              THEN k \o <<":", "\n">> \o emit_items(metadata[k].items)
              ELSE k \o <<":", " ">> \o emit_scalar(metadata[k]) \o <<"\n">>)
                \o emit_mapping(metadata, Tail(keys))

\* yaml.dump(metadata, default_flow_style=False, allow_unicode=True): a
\* block mapping, the keys sorted.
yaml_dump(metadata) ==
    emit_mapping(metadata, <<k_crawl_time, k_framework, k_tags, k_title, k_url>>)

\* Whether every quote between the quotes of a single-quoted scalar is
\* written twice.
RECURSIVE QuotesPaired(_)
QuotesPaired(s) ==
    IF s = <<>> THEN TRUE
    ELSE IF Head(s) # "'" THEN QuotesPaired(Tail(s))
    ELSE Len(s) >= 2 /\ s[2] = "'" /\ QuotesPaired(SubSeq(s, 3, Len(s)))

\* The text between the quotes of a single-quoted scalar read back.
RECURSIVE Unquote(_)
Unquote(s) ==
    IF s = <<>> THEN <<>>
    ELSE IF Head(s) = "'" THEN <<"'">> \o Unquote(SubSeq(s, 3, Len(s)))
    ELSE <<Head(s)>> \o Unquote(Tail(s))

\* The text of a plain scalar: what stands before a comment, stripped.
PlainText(text) ==
    Strip(IF Find(text, <<" ", "#">>, 0) = -1 THEN text
          ELSE SubSeq(text, 1, Find(text, <<" ", "#">>, 0)))

\* The scalar after "key: " or "- " read back; Raise is a YAMLError.
load_scalar(text) ==
    IF text # <<>> /\ Head(text) = "'"
    THEN IF /\ Len(text) >= 2
            /\ text[Len(text)] = "'"
            /\ QuotesPaired(SubSeq(text, 2, Len(text) - 1))
         THEN Ok(StrNode(Unquote(SubSeq(text, 2, Len(text) - 1))))
         ELSE Raise
    ELSE IF \/ Contains(<<":", " ">>, PlainText(text))
            \/ EndsWith(PlainText(text), <<":">>)
         THEN Raise
         ELSE Ok(Scalar(Resolve(PlainText(text)), PlainText(text)))

\* str.split("\n")
RECURSIVE SplitLines(_)
SplitLines(s) ==
    LET k == FirstOf(s, {"\n"})
    IN  IF k > Len(s) THEN <<s>>
        ELSE <<SubSeq(s, 1, k - 1)>> \o SplitLines(SubSeq(s, k + 1, Len(s)))

\* A line "- scalar" of a block sequence, and its scalar.
IsItem(line) == StartsWith(line, <<"-", " ">>)

ItemOf(line) == load_scalar(SubSeq(line, 3, Len(line)))

\* A line "key: scalar" or "key:" of a block mapping, its key and its value.
IsEntry(line) == Find(line, <<":", " ">>, 0) > 0 \/ (Len(line) > 1 /\ EndsWith(line, <<":">>))

KeyOf(line) ==
    IF Find(line, <<":", " ">>, 0) > 0
    THEN SubSeq(line, 1, Find(line, <<":", " ">>, 0))
    ELSE SubSeq(line, 1, Len(line) - 1)

ValueOf(line) ==
    IF Find(line, <<":", " ">>, 0) > 0
    THEN load_scalar(SubSeq(line, Find(line, <<":", " ">>, 0) + 3, Len(line)))
    ELSE Ok(Scalar("null", <<>>))

\* The lines of a block mapping read back from the i-th on; last is the
\* key the items of a block sequence belong to.
RECURSIVE load_lines(_, _, _, _)
load_lines(lines, i, map, last) ==
    IF i > Len(lines) THEN Ok(map)
    ELSE IF lines[i] = <<>> THEN load_lines(lines, i + 1, map, last)
    ELSE IF IsItem(lines[i])
    THEN IF last = None \/ ~ItemOf(lines[i]).ok THEN Raise
         ELSE IF map[last[1]].kind \notin {"null", "seq"} THEN Raise
         ELSE load_lines(lines, i + 1,
                         [map EXCEPT ![last[1]] =
                            SeqNode(@.items \o <<ItemOf(lines[i]).val>>)],
                         last)
    ELSE IF IsEntry(lines[i])
    THEN IF ~ValueOf(lines[i]).ok THEN Raise
         ELSE load_lines(lines, i + 1,
                         (KeyOf(lines[i]) :> ValueOf(lines[i]).val) @@ map,
                         Some(KeyOf(lines[i])))
    ELSE Raise

\* yaml.safe_load of a block mapping
safe_load(yaml_content) == load_lines(SplitLines(yaml_content), 1, EmptyDict, None)

\* MarkdownSavePipeline.output_dir, OUTPUT_DIR of the settings
output_dir == <<"o", "u", "t", "p", "u", "t">>

dot_md == <<".", "m", "d">>

\* path[:-5] for ".html", path[:-4] for ".htm"
StripHtmlSuffix(path) ==
    IF EndsWith(path, <<".", "h", "t", "m", "l">>)
    THEN SubSeq(path, 1, Len(path) - 5)
    ELSE IF EndsWith(path, <<".", "h", "t", "m">>)
    THEN SubSeq(path, 1, Len(path) - 4)
    ELSE path

\* "index" added after a final "/"
AddIndex(path) ==
    IF EndsWith(path, <<"/">>) THEN path \o <<"i", "n", "d", "e", "x">> ELSE path

\* path[1:] when the path starts with "/"
StripLeadingSlash(path) ==
    IF StartsWith(path, <<"/">>) THEN Tail(path) ELSE path

\* output_dir / domain / name: Path's "/" operator starts over from a
\* component that begins with "/".
JoinPath(domain, name) ==
    IF StartsWith(name, <<"/">>) THEN name
    ELSE IF domain = <<>> THEN output_dir \o <<"/">> \o name
    ELSE output_dir \o <<"/">> \o domain \o <<"/">> \o name

\* MarkdownSavePipeline._generate_output_path
_generate_output_path(url) ==
    IF urlparse(url).path = <<>> \/ urlparse(url).path = <<"/">>
    THEN JoinPath(urlparse(url).netloc, <<"i", "n", "d", "e", "x">> \o dot_md)
    ELSE JoinPath(urlparse(url).netloc,
                  StripLeadingSlash(AddIndex(StripHtmlSuffix(urlparse(url).path)))
                    \o dot_md)

\* MarkdownSavePipeline._build_metadata; now is the clock's reading
_build_metadata(adapter, now) ==
    LET present == {k_crawl_time}
                    \cup (IF adapter.url # <<>> THEN {k_url} ELSE {})
                    \cup (IF Truthy(adapter.title) THEN {k_title} ELSE {})
                    \cup (IF adapter.tags # <<>> THEN {k_tags} ELSE {})
                    \cup (IF adapter.framework # <<>> THEN {k_framework} ELSE {})
    IN  [k \in present |->
            CASE k = k_url -> StrNode(adapter.url)
              [] k = k_title -> StrNode(adapter.title[1])
              [] k = k_tags ->
                    SeqNode([i \in DOMAIN adapter.tags |-> StrNode(adapter.tags[i])])
              [] k = k_framework -> StrNode(adapter.framework)
              [] OTHER -> StrNode(IF Truthy(adapter.crawl_time)
                                  THEN adapter.crawl_time[1] ELSE now)]

dashes == <<"-", "-", "-">>

\* MarkdownSavePipeline._build_markdown
_build_markdown(metadata, content) ==
    dashes \o <<"\n">> \o yaml_dump(metadata) \o dashes \o <<"\n", "\n">> \o content

\* MarkdownSavePipeline.process_item: what it did and the files afterwards;
\* io says whether mkdir, open and write succeed.  The mkdir stands before
\* the try: its exception leaves process_item.
process_item(fs, item, now, io) ==
    IF item.url = <<>> THEN [ret |-> "skipped", files |-> fs]
    ELSE IF io = "mkdir_error" THEN [ret |-> "raised", files |-> fs]
    ELSE IF io = "ok"
    THEN [ret |-> "saved",
          files |-> (_generate_output_path(item.url) :>
                        _build_markdown(_build_metadata(item, now), item.content))
                    @@ fs]
    ELSE [ret |-> "failed", files |-> fs]

\* content.find("\n---\n", 4)
EndOfFrontMatter(content) == Find(content, <<"\n">> \o dashes \o <<"\n">>, 4)

\* What _parse_yaml_metadata returns for what yaml.safe_load did: the
\* mapping, or None after the YAMLError it catches.
LoadedOrNone(loaded) == IF loaded.ok THEN Some(loaded.val) ELSE None

\* yaml.safe_load(content[4:end_pos]), None when end_pos == -1
LoadFrontMatter(content, end_pos) ==
    IF end_pos = -1 THEN None
    ELSE LoadedOrNone(safe_load(SubSeq(content, 5, end_pos)))

\* CacheMiddleware._parse_yaml_metadata: None or the mapping
_parse_yaml_metadata(content) ==
    IF ~StartsWith(content, dashes) THEN None
    ELSE LoadFrontMatter(content, EndOfFrontMatter(content))

\* self.output_dir.rglob("*.md")
md_files(fs) ==
    {file \in DOMAIN fs : StartsWith(file, output_dir \o <<"/">>)
                            /\ EndsWith(file, dot_md)}

\* With a title required as well.
HasUrl_and_title(metadata) ==
    /\ metadata # None /\ DOMAIN metadata[1] # {}
    /\ k_url \in DOMAIN metadata[1] /\ k_title \in DOMAIN metadata[1]

\* if metadata and "url" in metadata
HasUrl(metadata) ==
    metadata # None /\ DOMAIN metadata[1] # {} /\ k_url \in DOMAIN metadata[1]

\* The entry _preload_from_output registers for a file, if it does.  A url
\* that is a list cannot be a key of the dict: the TypeError is caught and
\* the file is passed over.
EntryOf(file, content, metadata) ==
    IF HasUrl(metadata) /\ metadata[1][k_url].kind # "seq"
    THEN {[content |-> content, metadata |-> metadata[1], file_path |-> file]}
    ELSE {}

\* The entries _preload_from_output registers, one for each file it can
\* read a url from.
CacheEntries(fs) ==
    UNION {EntryOf(file, fs[file], _parse_yaml_metadata(fs[file])) :
            file \in md_files(fs)}

\* The caches that hold, for each url of the entries, one entry of that url.
CachesOf(entries) ==
    {cache \in [{e.metadata[k_url] : e \in entries} -> entries] :
        \A url \in DOMAIN cache : cache[url].metadata[k_url] = url}

\* CacheMiddleware._preload_from_output: the url_cache it can build from
\* the files.  The entries are keyed by the url node of the front matter;
\* of two files with the same url, the one rglob yields last stays.
_preload_from_output(fs) == CachesOf(CacheEntries(fs))

t_now == <<"2", "0", "2", "4", "-", "0", "1", "-", "0", "1", " ",
           "1", "0", ":", "0", "0", ":", "0", "0">>

\* The documents handed to the persister: the pages /a and /a.html, the
\* root page and a page whose path begins with two slashes, with a plain
\* payload or with one whose strings look like YAML; and a document
\* without a URL.
u_a      == https \o n_x \o <<"/", "a">>
u_a_html == https \o n_x \o <<"/", "a", ".", "h", "t", "m", "l">>
u_root   == https \o n_x \o <<"/">>
u_slash  == https \o n_x \o <<"/", "/", "a">>

PlainPayload ==
    [title |-> Some(<<"T">>), tags |-> << <<"a">> >>, content |-> <<"c">>,
     crawl_time |-> Some(t_now)]

YamlPayload ==
    [title |-> Some(<<"a", ":", " ", "'", "b">>),
     tags |-> <<dashes, <<"1">>, <<"a", " ", "#", "b">> >>,
     content |-> <<"x", "\n">> \o dashes \o <<"\n", "y">>,
     crawl_time |-> None]

Item(url, payload) ==
    [url |-> url, title |-> payload.title, tags |-> payload.tags,
     content |-> payload.content,
     framework |-> <<"m", "k", "d", "o", "c", "s">>,
     crawl_time |-> payload.crawl_time]

Items ==
    {Item(u_a, PlainPayload), Item(u_a_html, YamlPayload),
     Item(u_root, YamlPayload), Item(u_slash, PlainPayload),
     [url |-> <<>>, title |-> None, tags |-> <<>>, content |-> <<>>,
      framework |-> <<>>, crawl_time |-> None]}

\* pipeline.process_item(item)
ProcessItem(item, io) ==
    /\ op' = "process_item"
    /\ arg' = item
    /\ ret' = process_item(files, item, t_now, io).ret
    /\ files' = process_item(files, item, t_now, io).files
    /\ UNCHANGED <<config, loader, detectorVars, converterVars, url_cache, spider>>

\* CacheMiddleware(cache_dir, output_dir): every construction preloads.
NewCacheMiddleware ==
    /\ op' = "CacheMiddleware"
    /\ arg' = <<>>
    /\ ret' = <<>>
    /\ url_cache' \in _preload_from_output(files)
    /\ UNCHANGED <<config, loader, detectorVars, converterVars, files, spider>>

NextPersist ==
    \/ \E item \in Items, io \in {"ok", "error", "mkdir_error"} :
            ProcessItem(item, io)
    \/ NewCacheMiddleware

SpecPersist == Init /\ [][NextPersist]_vars

\* C10: right after process_item wrote the document of URL u, a preload of
\* the files registers an entry keyed by u whose metadata url is u.
C10_RoundTrip ==
    op = "process_item" /\ ret = "saved" =>
        \A cache \in _preload_from_output(files) :
            /\ StrNode(arg.url) \in DOMAIN cache
            /\ cache[StrNode(arg.url)].metadata[k_url] = StrNode(arg.url)

----------------------------------------------------------------------------
(* CacheMiddleware.process_request / process_response and the page handler *)

\* settings.py: the switch of the preload
CACHE_PRELOAD_FROM_OUTPUT == FALSE

cache_dir == <<"c", "a", "c", "h", "e">>

dot_html == <<".", "h", "t", "m", "l">>

Request(url) == [url |-> url]

\* What parsel finds in a body that holds text without markup: lxml puts
\* the text in one paragraph of the body, and no other element exists.
CssOfText(text) ==
    IF Strip(text) = <<>> THEN [q \in {} |-> <<>>]
    ELSE [q \in {<<"body", "">>} |-> << <<[tag |-> "p", text |-> Strip(text), path |-> <<>>]>> >>]

\* content[end_pos + 5:] if end_pos != -1 else content
BodyContent(content) ==
    IF EndOfFrontMatter(content) # -1
    THEN SubSeq(content, EndOfFrontMatter(content) + 6, Len(content))
    ELSE content

\* HtmlResponse(url=url, status=200, body=body_content, request=request)
\* with meta["cached"] = True and meta["cache_metadata"] = metadata
CachedResponse(request, cached) ==
    [url |-> request.url, status |-> 200, text |-> BodyContent(cached.content),
     css |-> CssOfText(BodyContent(cached.content)), raises |-> {},
     cached |-> TRUE, cache_metadata |-> Some(cached.metadata)]

\* With the lookup on the host instead of the whole URL.
process_request_by_host(cache, request) ==
    IF \E key \in DOMAIN cache :
            key.kind = "str" /\ urlparse(key.val).netloc = urlparse(request.url).netloc
    THEN Some(CachedResponse(request,
            cache[CHOOSE key \in DOMAIN cache :
                    key.kind = "str"
                    /\ urlparse(key.val).netloc = urlparse(request.url).netloc]))
    ELSE None

\* CacheMiddleware.process_request: None or the response built from the
\* entry of the URL.
process_request(cache, request) ==
    IF StrNode(request.url) \in DOMAIN cache
    THEN Some(CachedResponse(request, cache[StrNode(request.url)]))
    ELSE None

\* parsed.path.replace('/', '_')
Underscores(path) == [i \in DOMAIN path |-> IF path[i] = "/" THEN "_" ELSE path[i]]

\* self.cache_dir / f"{parsed.netloc}{parsed.path.replace('/', '_')}.html"
cache_file(url) ==
    cache_dir \o <<"/">> \o urlparse(url).netloc
        \o Underscores(urlparse(url).path) \o dot_html

\* With the response registered in url_cache as it passes.
process_response_registers(fs, cache, request, response, io) ==
    [ok |-> TRUE, files |-> fs,
     url_cache |-> (StrNode(request.url) :>
                        [content |-> response.text,
                         metadata |-> (k_url :> StrNode(request.url)),
                         file_path |-> cache_file(request.url)]) @@ cache]

\* CacheMiddleware.process_response: whether it returned the response, the
\* files and the url_cache afterwards.  io says whether mkdir, open and
\* write succeed.
process_response(fs, cache, request, response, io) ==
    IF response.cached THEN [ok |-> TRUE, files |-> fs, url_cache |-> cache]
    ELSE IF io = "mkdir_error" THEN [ok |-> FALSE, files |-> fs, url_cache |-> cache]
    ELSE IF io = "ok"
    THEN [ok |-> TRUE, files |-> (cache_file(request.url) :> response.text) @@ fs,
          url_cache |-> cache]
    ELSE [ok |-> TRUE, files |-> fs, url_cache |-> cache]

\* converters.get_converter: the class of a framework
get_converter(framework) ==
    CASE framework = "readthedocs" -> "ReadTheDocsConverter"
      [] framework = "rbook" -> "RBookConverter"
      [] framework = "mkdocs" -> "MkDocsConverter"
      [] framework = "sphinx" -> "SphinxConverter"
      [] framework = "teadocs" -> "TeadocsConverter"
      [] framework = "docsify" -> "DocsifyConverter"
      [] OTHER -> "BaseConverter"

\* create_converter(framework), which spiders/base.py imports from
\* crawler.converters: an object of the class of the framework.
create_converter(cfg, framework) ==
    construct(cfg, get_converter(framework), framework)

\* The characters of a framework name, as the item carries it.
FrameworkChars(framework) ==
    CASE framework = "readthedocs" ->
            <<"r", "e", "a", "d", "t", "h", "e", "d", "o", "c", "s">>
      [] framework = "mkdocs" -> <<"m", "k", "d", "o", "c", "s">>
      [] framework = "sphinx" -> <<"s", "p", "h", "i", "n", "x">>
      [] framework = "docsify" -> <<"d", "o", "c", "s", "i", "f", "y">>
      [] OTHER -> <<"u", "n", "k", "n", "o", "w", "n">>

\* list(set(tags)): the elements of the set in one of their orders
Orderings(S) == {s \in [1..Cardinality(S) -> S] : Range(s) = S}

\* detect(response) raises what response.css raises: the meta strategy,
\* reached when the URL and the HTML give nothing, queries the generator
\* and then the theme.
detect_raises(cache, cfg, response) ==
    /\ "raises" \in DOMAIN response
    /\ _detect(cache, cfg, response).by \notin {"url", "html"}
    /\ \/ q_generator \in response.raises
       \/ /\ q_theme \in response.raises
          /\ _detect_by_meta([response EXCEPT !.css =
                 [q \in {q_generator} |-> CssGetAll(response, q)]]) = "unknown"

\* stats["framework_distribution"][framework] += 1, from 0 when absent
Counted(distribution, framework) ==
    [f \in DOMAIN distribution \cup {framework} |->
        IF f = framework THEN Get(distribution, f, 0) + 1
        ELSE distribution[f]]

\* The rule _initialize_rules builds from the link extractor's configuration
Rules(link_extractor_config) ==
    [allow |-> Get(link_extractor_config, "allow", <<>>),
     deny  |-> Get(link_extractor_config, "deny", <<>>)]

\* The rule of the except branch
DefaultRules == [allow |-> <<>>, deny |-> <<>>]

\* BaseBlogSpider._initialize_rules with the early return left out
_initialize_rules_always(sp, cache, cfg, response) ==
    IF detect_raises(cache, cfg, response)
    THEN [sp EXCEPT !._rules = Some(DefaultRules),
                    !._rules_initialized = TRUE]
    ELSE [sp EXCEPT
            !.current_framework = _detect(cache, cfg, response).ret,
            !.stats.framework_distribution =
                Counted(@, _detect(cache, cfg, response).ret),
            !._rules = Some(Rules(get_link_extractor_config(
                                cfg, _detect(cache, cfg, response).ret))),
            !._rules_initialized = TRUE]

\* BaseBlogSpider._initialize_rules: the spider afterwards, and the
\* detector's cache afterwards.
_initialize_rules(sp, cache, cfg, response) ==
    IF sp._rules_initialized THEN sp
    ELSE IF detect_raises(cache, cfg, response)
    THEN [sp EXCEPT !._rules = Some(DefaultRules),
                    !._rules_initialized = TRUE]
    ELSE [sp EXCEPT
            !.current_framework = _detect(cache, cfg, response).ret,
            !.stats.framework_distribution =
                Counted(@, _detect(cache, cfg, response).ret),
            !._rules = Some(Rules(get_link_extractor_config(
                                cfg, _detect(cache, cfg, response).ret))),
            !._rules_initialized = TRUE]

CacheAfterRules(sp, cache, cfg, response) ==
    IF sp._rules_initialized THEN cache
    ELSE _detect(cache, cfg, response).cache

\* converter.process(response) of parse_page
PageData(framework, cfg, response) ==
    process(create_converter(cfg, framework).converter,
            create_converter(cfg, framework).config, response)

\* The BlogItem of parse_page
BlogItem(response, data, tags, framework, now) ==
    [url |-> response.url, title |-> data.title, tags |-> tags,
     content |-> data.content, framework |-> FrameworkChars(framework),
     crawl_time |-> Some(now)]

\* The counters of parse_page with the success counted before the
\* conversion is tried
parse_page_stats_early(sp, succeeded) ==
    [sp EXCEPT !.stats.pages_crawled = @ + 1,
               !.stats.pages_succeeded = @ + 1,
               !.stats.pages_failed = IF succeeded THEN @ ELSE @ + 1,
               !.yielded = IF succeeded THEN @ + 1 ELSE @]

\* The counters of parse_page: pages_crawled before the try, then
\* pages_succeeded and the yield of the item, or pages_failed in the except
\* branch.
parse_page_stats(sp, succeeded) ==
    [sp EXCEPT !.stats.pages_crawled = @ + 1,
               !.stats.pages_succeeded = IF succeeded THEN @ + 1 ELSE @,
               !.stats.pages_failed = IF succeeded THEN @ ELSE @ + 1,
               !.yielded = IF succeeded THEN @ + 1 ELSE @]

\* BaseBlogSpider._errback: the spider afterwards
_errback(sp) == [sp EXCEPT !.stats.pages_failed = @ + 1]

\* BaseBlogSpider.parse_page: the items it can yield, none when an
\* exception reached its except branch.  The pages of the model hold no
\* links, so that _process_response and _convert_markdown_urls leave their
\* texts as they are.
parse_page(framework, cfg, response, now) ==
    IF ~create_converter(cfg, framework).ok THEN {}
    ELSE {BlogItem(response, PageData(framework, cfg, response), tags,
                   framework, now) :
            tags \in Orderings(PageData(framework, cfg, response).tags)}

----------------------------------------------------------------------------
(* A crawl: requests through the middleware, the spider and the pipeline   *)

\* The site: the page /a carries the markup of a Read the Docs theme, the
\* root page carries no evidence of a framework; both have a heading, one
\* keyword and a body.
WebUrls == {u_a, u_root}

Web(url) ==
    [url |-> url, status |-> 200,
     text |-> IF url = u_a THEN b_wy ELSE <<>>,
     css |-> [PlainCss EXCEPT ![q_keywords] = << <<"a">> >>], raises |-> {},
     cached |-> FALSE, cache_metadata |-> None]

\* A new process: the store is loaded, the detector's cache is empty, the
\* middleware is constructed and the spider is constructed.
StartRun ==
    /\ op' = "CacheMiddleware"
    /\ arg' = <<>>
    /\ ret' = <<>>
    /\ config' \in ConfigFiles
    /\ loader' = LoaderOf(config')
    /\ domain_cache' = EmptyCache
    /\ url_cache' \in _preload_from_output(files)
    /\ spider' = NewSpider
    /\ UNCHANGED <<workers, cleared, converterVars, files>>

\* middleware.process_request(request)
ProcessRequest(url) ==
    /\ op' = "process_request"
    /\ arg' = Request(url)
    /\ ret' = process_request(url_cache, Request(url))
    /\ UNCHANGED <<config, loader, detectorVars, converterVars, storeVars, spider>>

\* The downloader fetches the page when process_request returned None.
Download ==
    /\ op = "process_request"
    /\ ret = None
    /\ op' = "download"
    /\ ret' = Some(Web(arg.url))
    /\ UNCHANGED <<config, loader, detectorVars, converterVars, storeVars, spider, arg>>

\* middleware.process_response(request, response), for the response of the
\* downloader and for the one process_request returned
ProcessResponse(io) ==
    /\ op \in {"process_request", "download"}
    /\ ret # None
    /\ op' = "process_response"
    /\ ret' = IF process_response(files, url_cache, arg, ret[1], io).ok
              THEN ret ELSE None
    /\ files' = process_response(files, url_cache, arg, ret[1], io).files
    /\ url_cache' = process_response(files, url_cache, arg, ret[1], io).url_cache
    /\ UNCHANGED <<config, loader, detectorVars, converterVars, spider, arg>>

\* The callback parse_page or _initial_parse of the spider on a response:
\* the rules are initialized if they are not, the counters are updated and
\* the item, if any, is yielded.
Callback(name, response) ==
    /\ constructions < MaxConstructions
    /\ constructions' = constructions + 1
    /\ spider' = parse_page_stats(
                     _initialize_rules(spider, domain_cache, config, response),
                     parse_page(_initialize_rules(spider, domain_cache, config,
                                                  response).current_framework,
                                config, response, t_now) # {})
    /\ domain_cache' = CacheAfterRules(spider, domain_cache, config, response)
    /\ config' = create_converter(config, spider'.current_framework).config
    /\ op' = name
    /\ arg' = response
    /\ IF parse_page(spider'.current_framework, config, response, t_now) = {}
       THEN ret' = <<>>
       ELSE \E item \in parse_page(spider'.current_framework, config,
                                   response, t_now) :
                ret' = <<item>>
    /\ UNCHANGED <<loader, workers, cleared, converter, storeVars>>

\* spider.parse_page(response)
ParsePage ==
    /\ op = "process_response"
    /\ ret # None
    /\ Callback("parse_page", ret[1])

\* The pipeline takes the item parse_page yielded.
PersistItem(io) ==
    /\ op = "parse_page"
    /\ ret # <<>>
    /\ ProcessItem(ret[1], io)

NextCrawl ==
    \/ StartRun
    \/ \E url \in WebUrls : ProcessRequest(url)
    \/ Download
    \/ \E io \in {"ok", "error", "mkdir_error"} : ProcessResponse(io)
    \/ ParsePage
    \/ \E io \in {"ok", "error", "mkdir_error"} : PersistItem(io)

SpecCrawl == Init /\ [][NextCrawl]_vars

----------------------------------------------------------------------------
(* Claims about the cache and the persister                                *)

\* C11: re-runs are idempotent: when the page handler was given a response
\* the middleware marked as cache-sourced, the pipeline step that follows
\* leaves the persisted documents as they are.
C11_NoRewrite ==
    [][(op = "parse_page" /\ arg.cached /\ op' = "process_item")
            => files' = files]_vars

\* C12: the lookup can be switched off: while CACHE_PRELOAD_FROM_OUTPUT is
\* false, process_request returns None for every request.
C12_SwitchedOff ==
    ~CACHE_PRELOAD_FROM_OUTPUT => (op = "process_request" => ret = None)

\* What the Classifier and the Extractor make of a response: the framework
\* detected, and the title, the tags and the content a converter of the
\* given framework extracts.
Observed(cfg, framework, response) ==
    [framework |-> _detect(EmptyCache, cfg, response).ret,
     title     |-> PageData(framework, cfg, response).title,
     tags      |-> PageData(framework, cfg, response).tags,
     content   |-> PageData(framework, cfg, response).content]

\* C13: a cache hit is indistinguishable from a fresh fetch: the response
\* process_request returns for a URL yields the same classification, title,
\* tags and content as the page the site serves for that URL.
C13_Indistinguishable ==
    op = "process_request" /\ ret # None =>
        \A framework \in {"unknown", "readthedocs"} :
            Observed(config, framework, ret[1])
                = Observed(config, framework, Web(arg.url))

closing_line == <<"\n">> \o dashes \o <<"\n">>

\* The text is what follows the first closing line of the front matter of
\* the document: the document ends with the text, the closing line stands
\* right before it, and no closing line ends earlier.
IsBodyOf(text, document) ==
    /\ Len(document) >= Len(text) + 9
    /\ SubSeq(document, Len(document) - Len(text) + 1, Len(document)) = text
    /\ SubSeq(document, Len(document) - Len(text) - 4, Len(document) - Len(text))
            = closing_line
    /\ ~Contains(closing_line,
                 SubSeq(document, 5, Len(document) - Len(text) - 1))

\* What process_request returned for the request, given the cache.
ExactLookup(cache, request, returned) ==
    /\ returned # None <=> StrNode(request.url) \in DOMAIN cache
    /\ returned # None =>
        /\ returned[1].status = 200
        /\ returned[1].url = request.url
        /\ IsBodyOf(returned[1].text, cache[StrNode(request.url)].content)
        /\ returned[1].cached
        /\ returned[1].cache_metadata = Some(cache[StrNode(request.url)].metadata)

\* C14: lookup is exact-URL: process_request returns a response exactly
\* when the URL of the request is a key of url_cache; the response has
\* status 200, the URL of the request, the persisted text after the front
\* matter as body, the cached flag and the stored metadata.  And
\* process_response writes no side-cache file for a cached response.
C14_ExactLookup ==
    /\ [](op = "process_request" => ExactLookup(url_cache, arg, ret))
    /\ [][(op = "process_request" /\ ret # None /\ op' = "process_response")
            => files' = files]_vars

\* A cached response went through process_response.
C14_Witness == op = "process_response" /\ ret # None /\ ret[1].cached

----------------------------------------------------------------------------
(* Preload over an output directory that holds other documents too         *)

front(yaml_content) == dashes \o <<"\n">> \o yaml_content \o dashes \o <<"\n">>

url_line == k_url \o <<":", " ">> \o u_a \o <<"\n">>

\* Documents the persister did not write: without front matter, with front
\* matter that is not closed, with front matter that is no YAML, with
\* front matter without a url, with a url that is a list.
d_none  == <<"#", " ", "T", "\n">>
d_open  == dashes \o <<"\n">> \o url_line \o <<"c">>
d_bad   == front(k_url \o <<":", " ", "a", ":", " ", "b", "\n">>)
d_nourl == front(k_title \o <<":", " ", "T", "\n">>) \o <<"\n", "c">>
d_list  == front(k_url \o <<":", "\n", "-", " ", "a", "\n">>)

Malformed == {d_none, d_open, d_bad, d_nourl, d_list}

\* A document with front matter that holds nothing but the url of /a.
d_valid == front(url_line) \o <<"\n", "c">>

f_foreign ==
    output_dir \o <<"/">> \o n_x \o <<"/", "f">> \o dot_md

PreloadItems == {Item(u_a, PlainPayload), Item(u_root, YamlPayload)}

\* The documents preload has to register, each with its url.
WellFormed ==
    {[text |-> d_valid, url |-> u_a]}
        \cup {[text |-> _build_markdown(_build_metadata(item, t_now), item.content),
               url |-> item.url] : item \in PreloadItems}

\* Someone puts a document into the output directory.
PlaceDocument(file, document) ==
    /\ op' = "place"
    /\ arg' = file
    /\ ret' = <<>>
    /\ files' = (file :> document) @@ files
    /\ UNCHANGED <<config, loader, detectorVars, converterVars, url_cache, spider>>

NextPreload ==
    \/ \E document \in Malformed \cup {d_valid} :
            PlaceDocument(f_foreign, document)
    \/ \E item \in PreloadItems : ProcessItem(item, "ok")
    \/ NewCacheMiddleware

SpecPreload == Init /\ [][NextPreload]_vars

\* The cache holds an entry for the url of each well-formed document, the
\* entry of a url is made of one of the documents with that url, and no
\* entry is made of a malformed document.
Registered(fs, cache) ==
    /\ \A file \in md_files(fs) : \A d \in WellFormed :
            fs[file] = d.text => StrNode(d.url) \in DOMAIN cache
    /\ \A url \in DOMAIN cache :
        /\ cache[url].file_path \in md_files(fs)
        /\ cache[url].content = fs[cache[url].file_path]
        /\ cache[url].metadata[k_url] = url
        /\ \E d \in WellFormed : d.text = cache[url].content /\ StrNode(d.url) = url

C16_ReadOnlyCache ==
    [][/\ op' \in {"process_request", "process_response"} => url_cache' = url_cache
       /\ url_cache' # url_cache => op' = "CacheMiddleware"]_vars

\* A URL persisted during the run is requested again and is not served
\* from the cache.
C16_Witness ==
    /\ op = "process_request"
    /\ ret = None
    /\ _generate_output_path(arg.url) \in DOMAIN files

\* Two URLs on the same host whose paths differ.
DistinctPaths(url, other) ==
    /\ urlparse(url).netloc = urlparse(other).netloc
    /\ urlparse(url).path # urlparse(other).path

\* C17: distinct URLs with distinct paths on the same host get distinct
\* files: saving the document of one URL leaves the document of every
\* other URL of the host as it is.
C17_DistinctFiles ==
    [][(op' = "process_item" /\ ret' = "saved") =>
            \A item \in Items :
                (/\ item.url # <<>>
                 /\ DistinctPaths(item.url, arg'.url)
                 /\ _generate_output_path(item.url) \in DOMAIN files)
                => files'[_generate_output_path(item.url)]
                        = files[_generate_output_path(item.url)]]_vars

\* The path the rule gives below the directory of the host: "index" for
\* an empty or "/" path, otherwise the path without a final .html or .htm,
\* with "index" after a final "/", without the leading "/".
RulePath(path) ==
    IF path = <<>> \/ path = <<"/">> THEN <<"i", "n", "d", "e", "x">>
    ELSE StripLeadingSlash(AddIndex(StripHtmlSuffix(path)))

\* <host>/<path>.md in the output directory
RuleFile(url) ==
    output_dir \o <<"/">> \o urlparse(url).netloc \o <<"/">>
        \o RulePath(urlparse(url).path) \o dot_md

\* C18: the output path is a function of the URL: the document saved for a
\* URL is the file <host>/<path>.md of the rule.
C18_PathRule ==
    op = "process_item" /\ ret = "saved" =>
        /\ _generate_output_path(arg.url) = RuleFile(arg.url)
        /\ RuleFile(arg.url) \in DOMAIN files

\* C19: I/O errors are swallowed per page: whether or not the directory
\* can be made and the file can be written, process_item returns the item
\* and process_response returns the response.
C19_ErrorsSwallowed ==
    /\ op = "process_item" => ret # "raised"
    /\ op = "process_response" => ret # None

----------------------------------------------------------------------------
(* Claim about the title                                                   *)

\* The first text of a selector, trimmed; empty when nothing matches.
TrimmedText(response, selector) ==
    IF CssGetAll(response, <<selector, "::text">>) = <<>> THEN <<>>
    ELSE Strip(CssGetAll(response, <<selector, "::text">>)[1])

\* The positions of the configured title selectors that yield text.
TitleHits(cfg, framework, response) ==
    {i \in DOMAIN Get(get_selectors(cfg, framework), "title", <<"h1", "title">>) :
        TrimmedText(response,
            Get(get_selectors(cfg, framework), "title", <<"h1", "title">>)[i]) # <<>>}

\* The title by the fallback order: the trimmed text of the first
\* configured selector that yields text, else og:title, else None.
TitleByOrder(cfg, framework, response) ==
    IF TitleHits(cfg, framework, response) # {}
    THEN Some(TrimmedText(response,
            Get(get_selectors(cfg, framework), "title", <<"h1", "title">>)
                [CHOOSE i \in TitleHits(cfg, framework, response) :
                    \A j \in TitleHits(cfg, framework, response) : i <= j]))
    ELSE IF CssGetAll(response, q_og_title) # <<>>
    THEN Some(Strip(CssGetAll(response, q_og_title)[1]))
    ELSE None

\* C20: title fallback ordering: when process extracted the fields of a
\* page whose queries all succeed, the title is the trimmed text of the
\* first configured title selector whose text is not empty after trimming;
\* og:title when no selector yields text; None when og:title is missing
\* too.
C20_TitleFallback ==
    op = "process" /\ arg.raises = {} /\ ~ret.aborted =>
        ret.title = TitleByOrder(config, converter.framework, arg)

----------------------------------------------------------------------------
(* Claims about the content and the tags                                   *)

\* The positions of the configured content selectors that match.
ContentHits(cfg, framework, response) ==
    {i \in DOMAIN Get(get_selectors(cfg, framework), "content", <<"body">>) :
        CssGetAll(response,
            <<Get(get_selectors(cfg, framework), "content", <<"body">>)[i], "">>)
                # <<>>}

\* The subtree of the first configured content selector that matches.
FirstContentHtml(cfg, framework, response) ==
    CssGetAll(response,
        <<Get(get_selectors(cfg, framework), "content", <<"body">>)
            [CHOOSE i \in ContentHits(cfg, framework, response) :
                \A j \in ContentHits(cfg, framework, response) : i <= j], "">>)[1]

\* C21: when process extracted the fields of a page whose queries all
\* succeed, the content is the conversion of the whole subtree of the
\* first configured content selector that matches; when none matches the
\* content is empty: there is no fallback to other content.
C21_ContentByOrder ==
    op = "process" /\ arg.raises = {} /\ ~ret.aborted =>
        ret.content =
            IF ContentHits(config, converter.framework, arg) = {} THEN <<>>
            ELSE convert(converter, config,
                         FirstContentHtml(config, converter.framework, arg))


\* The texts of every configured tag selector, the comma-separated keywords
\* and the og:article:tag values of a page.
TagSources(cfg, framework, response) ==
    UNION {Range(CssGetAll(response,
                   <<Get(get_selectors(cfg, framework), "tags", <<>>)[i],
                     "::text">>)) :
             i \in DOMAIN Get(get_selectors(cfg, framework), "tags", <<>>)}
    \cup (IF CssGetAll(response, q_keywords) = <<>> THEN {}
          ELSE Range(Split(CssGetAll(response, q_keywords)[1])))
    \cup Range(CssGetAll(response, q_og_tag))

\* C22: when process extracted the fields of a page whose queries all
\* succeed, the tags are the texts of the tag selectors, of the keywords
\* and of the og:article:tag values, each trimmed, without the empty
\* string and without any other value.
C22_TagUnion ==
    op = "process" /\ arg.raises = {} /\ ~ret.aborted =>
        ret.tags = {Strip(t) : t \in TagSources(config, converter.framework, arg)}
                        \ {<<>>}


----------------------------------------------------------------------------
(* Claim about the tags that convert strips                                *)

\* The HTML fragments a page hands to convert.
FragmentsOf(response) ==
    UNION {Range(response.css[q]) : q \in {x \in DOMAIN response.css : x[2] = ""}}

\* An element named by an entry of the strip list, or inside such an element.
Stripped(element, tags) ==
    \E i \in DOMAIN tags :
        element.tag = tags[i] \/ \E j \in DOMAIN element.path : element.path[j] = tags[i]

Remaining(html, tags) == SelectSeq(html, LAMBDA element : ~Stripped(element, tags))

----------------------------------------------------------------------------
(* URL normalization: urllib.parse.urljoin, UrlNormalizer and               *)
(* BaseBlogSpider._convert_markdown_urls                                    *)

Letters == {"a", "b", "c", "d", "e", "f", "g", "h", "i", "j", "k", "l", "m",
            "n", "o", "p", "q", "r", "s", "t", "u", "v", "w", "x", "y", "z"}

\* urllib.parse.uses_relative and uses_netloc, as far as the pages use them
uses_relative == {<<"h", "t", "t", "p">>, <<"h", "t", "t", "p", "s">>, <<"f", "t", "p">>, <<>>}

\* The index of the colon that ends the scheme of url, 0 when url has none.
SchemeEnd(url) ==
    IF /\ FirstOf(url, {":"}) \in 2..Len(url)
       /\ url[1] \in Letters
       /\ \A k \in 1..(FirstOf(url, {":"}) - 1) :
                url[k] \in Letters \cup {"+", "-", "."}
    THEN FirstOf(url, {":"}) ELSE 0

\* The part of rest before the first character in chars, and the part from it.
Before(rest, chars) == SubSeq(rest, 1, FirstOf(rest, chars) - 1)

From(rest, chars) == SubSeq(rest, FirstOf(rest, chars), Len(rest))

After(rest, chars) == SubSeq(rest, FirstOf(rest, chars) + 1, Len(rest))

\* urlsplit of what follows the scheme
SplitRest(scheme, rest) ==
    [scheme   |-> scheme,
     netloc   |-> IF StartsWith(rest, <<"/", "/">>)
                  THEN Before(SubSeq(rest, 3, Len(rest)), {"/", "?", "#"})
                  ELSE <<>>,
     path     |-> IF StartsWith(rest, <<"/", "/">>)
                  THEN Before(From(SubSeq(rest, 3, Len(rest)), {"/", "?", "#"}),
                              {"?", "#"})
                  ELSE Before(rest, {"?", "#"}),
     query    |-> After(Before(rest, {"#"}), {"?"}),
     fragment |-> After(rest, {"#"})]

\* What urlsplit parses: url without the white space in front of it and
\* without tabs and line ends.
Sanitized(url) ==
    SelectSeq(SubSeq(url, FirstOf(url, {url[k] : k \in DOMAIN url} \ Whitespace),
                     Len(url)),
              LAMBDA c : c \notin {"\n", "\t"})

SplitUrl(url, scheme) ==
    IF SchemeEnd(url) = 0 THEN SplitRest(scheme, url)
    ELSE SplitRest(Lower(SubSeq(url, 1, SchemeEnd(url) - 1)),
                   SubSeq(url, SchemeEnd(url) + 1, Len(url)))

\* urllib.parse.urlsplit(url, scheme)
urlsplit(url, scheme) == SplitUrl(Sanitized(url), scheme)

\* urllib.parse.urlunsplit: an empty query or fragment leaves no delimiter
urlunsplit(scheme, netloc, path, query, frag) ==
    (IF scheme # <<>> THEN scheme \o <<":">> ELSE <<>>)
        \o (IF netloc # <<>> \/ (scheme # <<>> /\ ~StartsWith(path, <<"/", "/">>))
            THEN <<"/", "/">> \o netloc
                    \o (IF path # <<>> /\ Head(path) # "/" THEN <<"/">> ELSE <<>>)
            ELSE <<>>)
        \o path
        \o (IF query # <<>> THEN <<"?">> \o query ELSE <<>>)
        \o (IF frag # <<>> THEN <<"#">> \o frag ELSE <<>>)

\* path.split("/")
RECURSIVE SplitPath(_)
SplitPath(path) ==
    IF FirstOf(path, {"/"}) > Len(path) THEN <<path>>
    ELSE <<Before(path, {"/"})>> \o SplitPath(Tail(From(path, {"/"})))

\* "/".join(segments)
RECURSIVE JoinSegments(_)
JoinSegments(segments) ==
    IF segments = <<>> THEN <<>>
    ELSE IF Len(segments) = 1 THEN segments[1]
    ELSE segments[1] \o <<"/">> \o JoinSegments(Tail(segments))

\* segments[1:-1] = filter(None, segments[1:-1])
FilterInner(segments) ==
    IF Len(segments) < 3 THEN segments
    ELSE <<segments[1]>>
            \o SelectSeq(SubSeq(segments, 2, Len(segments) - 1),
                         LAMBDA seg : seg # <<>>)
            \o <<segments[Len(segments)]>>

\* The loop of urljoin over the segments: ".." pops, "." is skipped.
RECURSIVE ResolveDots(_, _)
ResolveDots(segments, resolved_path) ==
    IF segments = <<>> THEN resolved_path
    ELSE IF Head(segments) = <<".", ".">>
    THEN ResolveDots(Tail(segments),
                 SubSeq(resolved_path, 1, Len(resolved_path) - 1))
    ELSE IF Head(segments) = <<".">> THEN ResolveDots(Tail(segments), resolved_path)
    ELSE ResolveDots(Tail(segments), Append(resolved_path, Head(segments)))

\* base_parts of urljoin: the segments of the base path without the last one
BaseParts(bpath) ==
    IF SplitPath(bpath)[Len(SplitPath(bpath))] # <<>>
    THEN SubSeq(SplitPath(bpath), 1, Len(SplitPath(bpath)) - 1)
    ELSE SplitPath(bpath)

Segments(bpath, path) ==
    IF StartsWith(path, <<"/">>) THEN SplitPath(path)
    ELSE FilterInner(BaseParts(bpath) \o SplitPath(path))

ResolvedPath(segments) ==
    IF JoinSegments(ResolveDots(segments, <<>>)
                    \o (IF segments[Len(segments)] \in {<<".">>, <<".", ".">>}
                        THEN << <<>> >> ELSE <<>>)) = <<>>
    THEN <<"/">>
    ELSE JoinSegments(ResolveDots(segments, <<>>)
                    \o (IF segments[Len(segments)] \in {<<".">>, <<".", ".">>}
                        THEN << <<>> >> ELSE <<>>))

\* urljoin once base and url are split
JoinSplit(b, u, url) ==
    IF u.scheme # b.scheme \/ u.scheme \notin uses_relative THEN url
    ELSE IF u.netloc # <<>>
    THEN urlunsplit(u.scheme, u.netloc, u.path, u.query, u.fragment)
    ELSE IF u.path = <<>>
    THEN urlunsplit(u.scheme, b.netloc, b.path,
                    IF u.query = <<>> THEN b.query ELSE u.query, u.fragment)
    ELSE urlunsplit(u.scheme, b.netloc, ResolvedPath(Segments(b.path, u.path)),
                    u.query, u.fragment)

\* urllib.parse.urljoin(base, url)
urljoin(base, url) ==
    IF base = <<>> THEN url
    ELSE IF url = <<>> THEN base
    ELSE JoinSplit(urlsplit(base, <<>>),
                   urlsplit(url, urlsplit(base, <<>>).scheme), url)


\* The (tag, attribute) pairs of UrlNormalizer.convert_relative_urls
UrlAttributes ==
    {<<"img", "src">>, <<"a", "href">>, <<"link", "href">>, <<"script", "src">>,
     <<"source", "src">>, <<"video", "src">>, <<"video", "poster">>,
     <<"audio", "src">>, <<"iframe", "src">>, <<"embed", "src">>,
     <<"object", "data">>}

\* UrlNormalizer.convert_relative_urls(soup, base_url): a document is the
\* sequence of its elements [tag, attrs]; an attribute that is absent or
\* empty is left alone.
convert_relative_urls(soup, base_url) ==
    IF base_url = <<>> THEN soup
    ELSE [i \in DOMAIN soup |->
            [tag   |-> soup[i].tag,
             attrs |-> [a \in DOMAIN soup[i].attrs |->
                            IF <<soup[i].tag, a>> \in UrlAttributes
                                /\ soup[i].attrs[a] # <<>>
                            THEN urljoin(base_url, soup[i].attrs[a])
                            ELSE soup[i].attrs[a]]]]

\* The index of the first c in s at or after position i, 0 when there is none.
IndexFrom(s, c, i) ==
    IF \E k \in i..Len(s) : s[k] = c
    THEN CHOOSE k \in i..Len(s) : s[k] = c /\ \A j \in i..(k - 1) : s[j] # c
    ELSE 0

\* The index of the first character in s at or after i that is not white
\* space, 0 when there is none.
TextFrom(s, i) ==
    IF \E k \in i..Len(s) : s[k] \notin Whitespace
    THEN CHOOSE k \in i..Len(s) :
            s[k] \notin Whitespace /\ \A j \in i..(k - 1) : s[j] \in Whitespace
    ELSE 0

\* The index of the last character of the run without white space from i.
RunEnd(s, i) ==
    CHOOSE k \in i..Len(s) :
        /\ \A j \in i..k : s[j] \notin Whitespace
        /\ k = Len(s) \/ s[k + 1] \in Whitespace

NoMatch == [end |-> 0]

\* \[([^\]]+)\]\(([^)]+)\) at the bracket at position i of s, with
\* \[([^\]]*)\] when the text may be empty: the bracket closes at k.
ParenAfter(s, i, k) ==
    IF k = 0 \/ k + 1 > Len(s) \/ s[k + 1] # "("
        \/ IndexFrom(s, ")", k + 2) <= k + 2
    THEN NoMatch
    ELSE [end |-> IndexFrom(s, ")", k + 2), label |-> SubSeq(s, i + 1, k - 1),
          url |-> SubSeq(s, k + 2, IndexFrom(s, ")", k + 2) - 1)]

Bracket(s, i, may_be_empty) ==
    IF i > Len(s) \/ s[i] # "[" THEN 0
    ELSE IF IndexFrom(s, "]", i + 1) = i + 1 /\ ~may_be_empty THEN 0
    ELSE IndexFrom(s, "]", i + 1)

\* \[([^\]]+)\]:\s*([^\s]+) at the bracket at position i, closed at k
RefAfter(s, i, k) ==
    IF k = 0 \/ k + 1 > Len(s) \/ s[k + 1] # ":" \/ TextFrom(s, k + 2) = 0
    THEN NoMatch
    ELSE [end |-> RunEnd(s, TextFrom(s, k + 2)), label |-> SubSeq(s, i + 1, k - 1),
          url |-> SubSeq(s, TextFrom(s, k + 2), RunEnd(s, TextFrom(s, k + 2)))]

\* The match of the pattern of a rewrite that starts at position i of s.
MatchAt(kind, s, i) ==
    CASE kind = "image" ->
            IF s[i] = "!" THEN ParenAfter(s, i + 1, Bracket(s, i + 1, TRUE))
            ELSE NoMatch
      [] kind = "link" -> ParenAfter(s, i, Bracket(s, i, FALSE))
      [] kind = "ref" -> RefAfter(s, i, Bracket(s, i, FALSE))

\* url.startswith((...)) of the three replacement functions
SkippedPrefixes(kind) ==
    CASE kind = "image" -> {<<"h", "t", "t", "p", ":", "/", "/">>, <<"h", "t", "t", "p", "s", ":", "/", "/">>, <<"d", "a", "t", "a", ":">>, <<"#">>}
      [] kind = "link" -> {<<"h", "t", "t", "p", ":", "/", "/">>, <<"h", "t", "t", "p", "s", ":", "/", "/">>, <<"m", "a", "i", "l", "t", "o", ":">>, <<"t", "e", "l", ":">>, <<"#">>}
      [] kind = "ref" -> {<<"h", "t", "t", "p", ":", "/", "/">>, <<"h", "t", "t", "p", "s", ":", "/", "/">>, <<"#">>}

\* ![alt](url), [text](url) and [ref]: url
Syntax(kind, label, url) ==
    CASE kind = "image" -> <<"!", "[">> \o label \o <<"]", "(">> \o url \o <<")">>
      [] kind = "link" -> <<"[">> \o label \o <<"]", "(">> \o url \o <<")">>
      [] kind = "ref" -> <<"[">> \o label \o <<"]", ":", " ">> \o url

\* replace_image_url, replace_link_url and replace_ref_url: match.group(0)
\* of a skipped url, the syntax with the joined url otherwise
replace_url(kind, group0, match, base_url) ==
    IF \E prefix \in SkippedPrefixes(kind) : StartsWith(match.url, prefix)
    THEN group0
    ELSE Syntax(kind, match.label, urljoin(base_url, match.url))

\* re.sub(pattern, replace, content) from position i on
RECURSIVE re_sub(_, _, _, _)
re_sub(kind, content, i, base_url) ==
    IF i > Len(content) THEN <<>>
    ELSE IF MatchAt(kind, content, i).end = 0
    THEN <<content[i]>> \o re_sub(kind, content, i + 1, base_url)
    ELSE replace_url(kind, SubSeq(content, i, MatchAt(kind, content, i).end),
                     MatchAt(kind, content, i), base_url)
            \o re_sub(kind, content, MatchAt(kind, content, i).end + 1, base_url)

\* BaseBlogSpider._convert_markdown_urls(content, base_url)
_convert_markdown_urls(content, base_url) ==
    IF content = <<>> THEN content
    ELSE re_sub("ref",
                re_sub("link", re_sub("image", content, 1, base_url), 1, base_url),
                1, base_url)


u_base == <<"h", "t", "t", "p", "s", ":", "/", "/", "h", "/", "d", "/", "p">>

MdUrls == {<<"/", "x">>, <<"x">>, <<"#", "f">>, <<"h", "t", "t", "p", ":", "/", "/", "o", "/", "a">>, <<"h", "t", "t", "p", "s", ":", "/", "/", "o", "/", "a">>, <<"d", "a", "t", "a", ":", "x">>, <<"m", "a", "i", "l", "t", "o", ":", "m">>,
           <<"t", "e", "l", ":", "1">>}

Kinds == {"image", "link", "ref"}

t_text == <<"t">>

\* An image inside a link, as markdownify writes <a href><img src></a>.
LinkedImage(src, href) == Syntax("link", Syntax("image", t_text, src), href)

\* A reference definition whose target is written as a link.
LinkedRef(href) == Syntax("ref", t_text, Syntax("link", t_text, href))

\* The Markdown texts: one image, link or reference definition, two of
\* them on two lines, a linked image, a reference to a link, and the texts
\* without any url.
MdDocuments ==
    {Syntax(kind, t_text, url) : kind \in Kinds, url \in MdUrls}
    \cup {Syntax(first, t_text, <<"/", "x">>) \o <<"\n">> \o Syntax(kind, t_text, url) :
            first \in Kinds, kind \in Kinds, url \in MdUrls}
    \cup {LinkedImage(<<"x">>, url) : url \in {<<"/", "x">>, <<"#", "f">>}}
    \cup {LinkedRef(<<"x">>), t_text, <<>>}

HtmlUrls == {<<"/", "x">>, <<"x">>, <<"#", "f">>, <<"h", "t", "t", "p", "s", ":", "/", "/", "o", "/", "a">>, <<"h", "t", "t", "p", "s", ":", "/", "/", "o", "/", "a", "#">>, <<"h", "t", "t", "p", ":", "/", "/", "o", "/", "a", "#">>,
             <<"m", "a", "i", "l", "t", "o", ":", "m">>, <<"/", "/", "o", "/", "a">>, <<>>}

\* <tag attr="url">
Element(tag, attr, url) == [tag |-> tag, attrs |-> [a \in {attr} |-> url]]

\* The documents of the HTML pass: one element with one url, among them a
\* form, whose action is not rewritten, a video with source and poster,
\* and a link in front of an image.
Soups ==
    {<<Element(pair[1], pair[2], url)>> :
        pair \in {<<"img", "src">>, <<"a", "href">>, <<"object", "data">>,
                  <<"form", "action">>},
        url \in HtmlUrls}
    \cup {<<[tag |-> "video",
             attrs |-> [a \in {"src", "poster"} |->
                            IF a = "src" THEN url ELSE <<"/", "x">>]]>> :
            url \in HtmlUrls}
    \cup {<<Element("a", "href", url), Element("img", "src", <<"x">>)>> :
            url \in HtmlUrls}

\* _convert_markdown_urls(content, response.url) of parse_page
ConvertMarkdownUrls(content) ==
    /\ op' = "_convert_markdown_urls"
    /\ arg' = <<content, u_base>>
    /\ ret' = _convert_markdown_urls(content, u_base)
    /\ UNCHANGED <<config, loader, detectorVars, converterVars, storeVars, spider>>

\* UrlNormalizer.convert_relative_urls(soup, base_url): ret is the document
\* afterwards.
ConvertRelativeUrls(soup) ==
    /\ op' = "convert_relative_urls"
    /\ arg' = <<soup, u_base>>
    /\ ret' = convert_relative_urls(soup, u_base)
    /\ UNCHANGED <<config, loader, detectorVars, converterVars, storeVars, spider>>

NextNormalize ==
    \/ \E content \in MdDocuments : ConvertMarkdownUrls(content)
    \/ \E soup \in Soups : ConvertRelativeUrls(soup)

SpecNormalize == Init /\ [][NextNormalize]_vars

\* A url that carries a scheme and a host.
IsAbsolute(url) == SchemeEnd(url) # 0 /\ Contains(<<":", "/", "/">>, url)

\* C23: the HTML pass with an absolute base replaces every url of a listed
\* attribute by its resolution against the base, leaves a url that is
\* already absolute as it is, and a second pass changes nothing.
C23_HtmlPass ==
    op = "convert_relative_urls" =>
        /\ \A i \in DOMAIN arg[1] : \A a \in DOMAIN arg[1][i].attrs :
            /\ <<arg[1][i].tag, a>> \in UrlAttributes /\ arg[1][i].attrs[a] # <<>>
                => ret[i].attrs[a] = urljoin(arg[2], arg[1][i].attrs[a])
            /\ <<arg[1][i].tag, a>> \in UrlAttributes /\ IsAbsolute(arg[1][i].attrs[a])
                => ret[i].attrs[a] = arg[1][i].attrs[a]
        /\ convert_relative_urls(ret, arg[2]) = ret

\* C24: the Markdown pass is idempotent: converting the text it returned
\* with the same base returns that text.
C24_MarkdownIdempotent ==
    op = "_convert_markdown_urls" =>
        _convert_markdown_urls(ret, arg[2]) = ret

\* The prefixes of the urls that the Markdown pass is to leave alone.
Untouched ==
    {<<"h", "t", "t", "p", ":", "/", "/">>, <<"h", "t", "t", "p", "s", ":", "/", "/">>, <<"d", "a", "t", "a", ":">>, <<"m", "a", "i", "l", "t", "o", ":">>, <<"t", "e", "l", ":">>, <<"#">>}

\* The url a rewrite is to put in place of url.
Resolved(url, base_url) ==
    IF \E prefix \in Untouched : StartsWith(url, prefix) THEN url
    ELSE urljoin(base_url, url)

\* C25: each rewrite, and the pass as a whole, leaves a url with one of the
\* six prefixes as it is and puts the resolution in place of every other
\* url, with the label as it was: for an image, a link or a reference
\* definition alone, and for the image and the link of a linked image.
C25_MarkdownUrls ==
    op = "_convert_markdown_urls" =>
        /\ \A kind \in Kinds : \A url \in MdUrls :
            arg[1] = Syntax(kind, t_text, url) =>
                /\ ret = Syntax(kind, t_text, Resolved(url, arg[2]))
                /\ re_sub(kind, arg[1], 1, arg[2]) = ret
        /\ \A src \in MdUrls : \A href \in MdUrls :
            arg[1] = LinkedImage(src, href) =>
                ret = LinkedImage(Resolved(src, arg[2]), Resolved(href, arg[2]))


----------------------------------------------------------------------------
(* The configuration loader                                                *)

InitLoader ==
    /\ config = NoConfig
    /\ loader = NoLoader
    /\ domain_cache = EmptyCache
    /\ workers = [t \in Threads |-> Idle]
    /\ op = "import"
    /\ arg = <<>>
    /\ ret = <<>>
    /\ cleared = EmptyCache
    /\ converter = [cls |-> "none"]
    /\ constructions = 0
    /\ files = <<>>
    /\ url_cache = <<>>
    /\ spider = NewSpider

\* FrameworkConfigLoader(config_path); ret holds the instance and whether
\* the construction returned (load_config raises FileNotFoundError).
NewLoader(config_path) ==
    /\ op' = "FrameworkConfigLoader"
    /\ arg' = config_path
    /\ ret' = [ok |-> FrameworkConfigLoader(loader, config, config_path).ok,
               instance |->
                    FrameworkConfigLoader(loader, config, config_path).instance]
    /\ loader' = FrameworkConfigLoader(loader, config, config_path).loader
    /\ config' = FrameworkConfigLoader(loader, config, config_path).config
    /\ UNCHANGED <<detectorVars, converterVars, storeVars, spider>>

\* get_config_loader(config_path)
GetConfigLoader(config_path) ==
    /\ op' = "get_config_loader"
    /\ arg' = config_path
    /\ ret' = [ok |-> get_config_loader(loader, config, config_path).ok,
               instance |-> get_config_loader(loader, config, config_path).instance]
    /\ loader' = get_config_loader(loader, config, config_path).loader
    /\ config' = get_config_loader(loader, config, config_path).config
    /\ UNCHANGED <<detectorVars, converterVars, storeVars, spider>>

NextLoader ==
    \/ \E config_path \in {None} \cup {Some(p) : p \in ConfigPaths} :
            NewLoader(config_path)
    \/ \E config_path \in {None} \cup {Some(p) : p \in ConfigPaths} :
            GetConfigLoader(config_path)
    \/ \E getter \in Getters : \E framework \in {"mkdocs", "hugo"} :
            Lookup(getter, framework)

SpecLoader == InitLoader /\ [][NextLoader]_vars


----------------------------------------------------------------------------
(* The names of the files in the cache directory                           *)

u_a_b     == https \o n_x \o <<"/", "a", "/", "b">>
u_a_b_q   == https \o n_x \o <<"/", "a", "/", "b", "?", "q">>
u_a_b_1   == <<"h", "t", "t", "p", ":", "/", "/">> \o n_x \o <<"/", "a", "/", "b">>
u_a_und_b == https \o n_x \o <<"/", "a", "_", "b">>

CacheUrls == {u_root, u_a, u_a_b, u_a_b_q, u_a_b_1, u_a_und_b}

\* The downloader's response to a request.
Downloaded(url, text) ==
    [url |-> url, status |-> 200, text |-> text, css |-> CssOfText(text),
     raises |-> {}, cached |-> FALSE, cache_metadata |-> None]

\* middleware.process_response(request, response, spider) for a response
\* that came from the downloader
SaveResponse(url, text, io) ==
    /\ op' = "process_response"
    /\ arg' = Request(url)
    /\ ret' = IF process_response(files, url_cache, Request(url),
                                  Downloaded(url, text), io).ok
              THEN Some(Downloaded(url, text)) ELSE None
    /\ files' = process_response(files, url_cache, Request(url),
                                 Downloaded(url, text), io).files
    /\ url_cache' = process_response(files, url_cache, Request(url),
                                     Downloaded(url, text), io).url_cache
    /\ UNCHANGED <<config, loader, detectorVars, converterVars, spider>>

NextCache ==
    \E url \in CacheUrls : \E text \in {<<"1">>, <<"2">>} :
        \E io \in {"ok", "error", "mkdir_error"} : SaveResponse(url, text, io)

SpecCache == Init /\ [][NextCache]_vars

\* C28: the file name process_response computed for the url of a request
\* is the file name of no other url.
C28_DistinctCacheFiles ==
    op = "process_response" =>
        \A url \in CacheUrls :
            url # arg.url => cache_file(url) # cache_file(arg.url)

----------------------------------------------------------------------------
(* A run of the spider: its callbacks on the responses of a site           *)

u_rtd == https \o n_rtd \o <<"/">>

\* A page of the site with meta tags; raises holds the queries on which
\* response.css raises.
MetaPage(url, generator, theme, raises) ==
    [Web(url) EXCEPT
        !.css = [q \in DOMAIN @ \cup {q_generator, q_theme} |->
                    IF q = q_generator THEN generator
                    ELSE IF q = q_theme THEN theme ELSE @[q]],
        !.raises = raises]

\* Pages with evidence in the URL, in the HTML and in the meta tags, pages
\* without evidence, a Docsify page, for which no converter can be
\* constructed, and a page on which detection raises.
SpiderPages ==
    {Web(u_a), Web(u_root), Web(u_rtd),
     MetaPage(u_root, <<g_mkdocs>>, <<>>, {}),
     MetaPage(u_root, <<>>, <<g_docsify>>, {}),
     MetaPage(u_a_html, <<>>, <<>>, {q_generator})}

\* Requests that may fail in one behaviour
MaxFailed == 2

\* spider._initial_parse(response), the callback of the start requests:
\* _initialize_rules, then parse_page; the pages hold no links to follow.
InitialParse(response) == Callback("_initial_parse", response)

\* spider.parse_page(response), the callback of the rules
ParseResponse(response) == Callback("parse_page", response)

\* spider._errback(failure)
Errback ==
    /\ spider.stats.pages_failed < MaxFailed
    /\ spider' = _errback(spider)
    /\ op' = "_errback"
    /\ arg' = <<>>
    /\ ret' = <<>>
    /\ UNCHANGED <<config, loader, detectorVars, converterVars, storeVars>>

NextSpider ==
    \/ StartRun
    \/ \E response \in SpiderPages : InitialParse(response)
    \/ \E response \in SpiderPages : ParseResponse(response)
    \/ Errback

SpecSpider == Init /\ [][NextSpider]_vars

CallbackNames == {"parse_page", "_initial_parse"}

\* What one call of parse_page does to the counters, and whether it
\* yields an item
PageCounted ==
    /\ spider'.stats.pages_crawled = spider.stats.pages_crawled + 1
    /\ \/ /\ spider'.stats.pages_succeeded = spider.stats.pages_succeeded + 1
          /\ spider'.stats.pages_failed = spider.stats.pages_failed
          /\ ret' # <<>>
          /\ spider'.yielded = spider.yielded + 1
       \/ /\ spider'.stats.pages_succeeded = spider.stats.pages_succeeded
          /\ spider'.stats.pages_failed = spider.stats.pages_failed + 1
          /\ ret' = <<>>
          /\ spider'.yielded = spider.yielded

\* What one call of _errback does to the counters
FailureCounted ==
    /\ spider'.stats.pages_crawled = spider.stats.pages_crawled
    /\ spider'.stats.pages_succeeded = spider.stats.pages_succeeded
    /\ spider'.stats.pages_failed = spider.stats.pages_failed + 1
    /\ spider'.yielded = spider.yielded

CountersConsistent ==
    /\ spider.stats.pages_succeeded + spider.stats.pages_failed
          >= spider.stats.pages_crawled
    /\ spider.yielded = spider.stats.pages_succeeded

\* C29: every call of parse_page adds one to pages_crawled and one to
\* exactly one of pages_succeeded and pages_failed, and yields an item
\* exactly when it counts a success; _errback adds one to pages_failed
\* only; so pages_succeeded + pages_failed >= pages_crawled and the number
\* of yielded items is pages_succeeded in every state of a run.
C29_Counters ==
    /\ [][op' \in CallbackNames => PageCounted]_vars
    /\ [][op' = "_errback" => FailureCounted]_vars
    /\ []CountersConsistent

\* A page whose conversion failed after a request had failed: both are
\* counted as failures, one page is counted as crawled.
C29_Witness ==
    /\ op = "parse_page"
    /\ ret = <<>>
    /\ spider.stats.pages_crawled = 1
    /\ spider.stats.pages_failed = 2
    /\ spider.stats.pages_succeeded = 0

\* The framework of a run's first response: the one detect returns, and
\* "unknown" when detect raises
FirstDetected(cache, cfg, response) ==
    IF detect_raises(cache, cfg, response) THEN "unknown"
    ELSE _detect(cache, cfg, response).ret

\* A step of the run that is not the start of a new run
SameRun == op' # "CacheMiddleware"

RulesKept ==
    /\ spider'._rules_initialized
    /\ spider'.current_framework = spider.current_framework
    /\ spider'._rules = spider._rules
    /\ spider'.stats.framework_distribution =
          spider.stats.framework_distribution

OneDetection ==
    /\ Cardinality(DOMAIN spider.stats.framework_distribution) <= 1
    /\ \A f \in DOMAIN spider.stats.framework_distribution :
          spider.stats.framework_distribution[f] = 1

\* C30: the first callback of a run detects the framework, "unknown" when
\* the detection raises, and initializes the rules; from then on
\* _rules_initialized stays true and current_framework, the rules and
\* framework_distribution stay as they are, every item carries that
\* framework, and framework_distribution holds at most one detection.
C30_DetectOnce ==
    /\ [][~spider._rules_initialized /\ op' \in CallbackNames
            => /\ spider'._rules_initialized
               /\ spider'.current_framework =
                     FirstDetected(domain_cache, config, arg')]_vars
    /\ [][spider._rules_initialized /\ SameRun => RulesKept]_vars
    /\ [](op \in CallbackNames /\ ret # <<>>
            => ret[1].framework = FrameworkChars(spider.current_framework))
    /\ []OneDetection

\* The second page of a run carries evidence of a framework, the first
\* carried none: its item says "unknown".
C30_Witness ==
    /\ op = "parse_page"
    /\ ret # <<>>
    /\ spider.stats.pages_crawled = 2
    /\ spider.current_framework = "unknown"
    /\ ret[1].framework = FrameworkChars("unknown")
    /\ _detect(EmptyCache, config, arg).ret \notin {"unknown", "docsify"}

====
